---- MODULE Spec2Model ----
(***************************************************************************)
(* Model of the Ethereum indexer: the persistence layer (db-core), the     *)
(* ingestion daemon's re-org state machine and the maintenance utility.    *)
(*                                                                         *)
(* The two tables of schema.sql: `transactions` is a bag of rows (the      *)
(* primary key (tx_hash, block_number) is what the INSERTs of postgres.ts  *)
(* have to preserve, so it is checked, not assumed) and `checkpoints` is a *)
(* set of rows with the primary key id.  The columns last_updated and      *)
(* created_at (wall-clock stamps) and                                      *)
(* the columns of a transaction that no operation reads (transaction_index,*)
(* from_address, to_address, amount, is_internal_call) are left out.       *)
(***************************************************************************)
EXTENDS Integers, Sequences, FiniteSets, Bags, TLC

VARIABLES
    transactions,   \* table transactions: bag of rows
    checkpoints,    \* table checkpoints: set of rows (primary key id)
    lastCall,       \* the most recent completed persistence call and its outcome
    scenario,       \* position and inputs of a scripted sequence of calls
    conns,          \* per pool connection: the call it runs and its open transaction
    chain,          \* the canonical chain as the RPC endpoint serves it: block n is chain[n + 1]
    forks,          \* number of chain reorganizations so far
    settled,        \* the chain has stopped changing and calls no longer fail transiently
    pc,             \* the await at which main() of the daemon stands
    dbHead,         \* main(): const dbHead
    onChainBlockNumber,   \* main(): const onChainBlockNumber
    targetBlockHeader,    \* main(): const targetBlockHeader / header
    txs,            \* main(): const txs
    error,          \* main(): the error caught at the loop boundary
    rpcUrls,        \* the endpoint URLs parsed from process.env.RPC_URLS
    providers,      \* ReliableProviderManager.providers, in configured order
    unhealthyProviders,   \* ReliableProviderManager.unhealthyProviders
    blockHeights,   \* ReliableProviderManager.blockHeights: url -> last height it answered
    responses,      \* what each endpoint answered in the most recent health check
    client,         \* main(): const client, the transports it was built with
    rpcCall,        \* the foreground RPC call in flight and the transports it was handed
    imu,            \* the imu command being run: its arguments, locals, position and exit code
    parsed,         \* a TransactionSchema.safeParse call: its input and its result
    monitor,        \* the health check in progress: its position and its locals
    shutdown        \* the daemon process and the signal sent to it

storeVars == <<transactions, checkpoints>>
chainVars == <<chain, forks, settled>>
localVars == <<dbHead, onChainBlockNumber, targetBlockHeader, txs, error>>
daemonVars == <<chain, forks, settled, pc, dbHead, onChainBlockNumber, targetBlockHeader,
                txs, error>>
rpcVars == <<rpcUrls, providers, unhealthyProviders, blockHeights, responses, client, rpcCall>>
hostVars == <<parsed, monitor, shutdown>>
vars == <<transactions, checkpoints, lastCall, scenario, conns, chain, forks, settled, pc,
          dbHead, onChainBlockNumber, targetBlockHeader, txs, error, rpcVars, imu, hostVars>>

-----------------------------------------------------------------------------
(* Bounds of the model *)

MaxBlock == 2      \* block numbers of records range over 1..MaxBlock
MaxBatch == 2      \* longest batch handed to insertBatch / bulkInsert

TxHashes == {"t1"}
BlockHashes == {"hA", "hB"}
BlockNumbers == 1..MaxBlock

\* ValidatedTransaction (the fields the persistence layer reads)
Records == [transactionHash : TxHashes, blockNumber : BlockNumbers, blockHash : BlockHashes]

RECURSIVE SeqsUpTo(_, _)
SeqsUpTo(S, n) ==
    IF n = 0 THEN {<<>>}
    ELSE LET shorter == SeqsUpTo(S, n - 1)
         IN shorter \cup {Append(s, x) : s \in {q \in shorter : Len(q) = n - 1}, x \in S}

Batches == SeqsUpTo(Records, MaxBatch)

\* fork points handed to rollbackState
ForkPoints == 0..(MaxBlock + 2)

-----------------------------------------------------------------------------
(* SQL statements of postgres.ts, each as the table it leaves *)

CHAIN_HEAD == "chain_head"

\* a nullable column holds <<>> (NULL) or <<text>>
NULL == <<>>

\* tx.to is falsy: the property is absent, null (<<>>) or the empty string
ToIsFalsy(tx) == IF "to" \in DOMAIN tx THEN tx.to = <<>> \/ tx.to = <<"">> ELSE TRUE

\* the row an INSERT builds from a record: the values bound to $1, $2, $3 and $6
\* (tx.to || null)
ToRow(tx) ==
    [tx_hash |-> tx.transactionHash, block_number |-> tx.blockNumber, block_hash |-> tx.blockHash,
     to_address |-> IF ToIsFalsy(tx) THEN NULL ELSE tx.to]

\* ON CONFLICT (tx_hash, block_number)
Conflicts(tbl, row) ==
    \E r \in BagToSet(tbl) : r.tx_hash = row.tx_hash /\ r.block_number = row.block_number

\* the INSERT with ON CONFLICT (tx_hash, block_number) DO UPDATE: the stored row
\* takes the fields of the record
InsertOnConflictDoUpdate(tbl, tx) ==
    LET kept == {r \in BagToSet(tbl) :
                    ~(r.tx_hash = ToRow(tx).tx_hash /\ r.block_number = ToRow(tx).block_number)}
    IN [r \in kept |-> tbl[r]] (+) SetToBag({ToRow(tx)})

\* mutant of InsertOnConflictDoNothing: a plain INSERT into a table that does not
\* enforce the key
InsertPlain(tbl, tx) == tbl (+) SetToBag({ToRow(tx)})

\* INSERT INTO transactions ... ON CONFLICT (tx_hash, block_number) DO NOTHING
InsertOnConflictDoNothing(tbl, tx) ==
    IF Conflicts(tbl, ToRow(tx)) THEN tbl ELSE tbl (+) SetToBag({ToRow(tx)})

\* mutants of DeleteFrom: WHERE block_number > $1, WHERE block_number >= $1 - 1
DeleteAfter(tbl, forkBlockNumber) ==
    [r \in {q \in BagToSet(tbl) : ~(q.block_number > forkBlockNumber)} |-> tbl[r]]

DeleteFromParent(tbl, forkBlockNumber) ==
    [r \in {q \in BagToSet(tbl) : ~(q.block_number >= forkBlockNumber - 1)} |-> tbl[r]]

\* DELETE FROM transactions WHERE block_number >= $1
DeleteFrom(tbl, forkBlockNumber) ==
    [r \in {q \in BagToSet(tbl) : ~(q.block_number >= forkBlockNumber)} |-> tbl[r]]

\* the UPDATE with block_hash = '' added to its SET list
UpdateCheckpointClearsHash(cps, prevBlock) ==
    {IF c.id = CHAIN_HEAD THEN [c EXCEPT !.block_number = prevBlock, !.block_hash = ""] ELSE c :
        c \in cps}

\* UPDATE checkpoints SET block_number = $1, last_updated = NOW() WHERE id = 'chain_head'
UpdateCheckpoint(cps, prevBlock) ==
    {IF c.id = CHAIN_HEAD THEN [c EXCEPT !.block_number = prevBlock] ELSE c : c \in cps}

\* the checkpoint write as an INSERT that adds a row whatever the table holds
saveCheckpointAddsRow(cps, blockNumber, blockHash) ==
    cps \cup {[id |-> CHAIN_HEAD, block_number |-> blockNumber, block_hash |-> blockHash]}

\* the checkpoint write with ON CONFLICT (id) DO NOTHING
saveCheckpointDoNothing(cps, blockNumber, blockHash) ==
    IF \E c \in cps : c.id = CHAIN_HEAD THEN cps
    ELSE cps \cup {[id |-> CHAIN_HEAD, block_number |-> blockNumber, block_hash |-> blockHash]}

\* INSERT INTO checkpoints ... ON CONFLICT (id) DO UPDATE SET block_number, block_hash
saveCheckpoint(cps, blockNumber, blockHash) ==
    IF \E c \in cps : c.id = CHAIN_HEAD
    THEN {IF c.id = CHAIN_HEAD
          THEN [c EXCEPT !.block_number = blockNumber, !.block_hash = blockHash]
          ELSE c : c \in cps}
    ELSE cps \cup {[id |-> CHAIN_HEAD, block_number |-> blockNumber, block_hash |-> blockHash]}

\* SELECT block_number, block_hash FROM checkpoints WHERE id = 'chain_head'
NoHead == [present |-> FALSE]
getHeadBlock(cps) ==
    IF {c \in cps : c.id = CHAIN_HEAD} = {} THEN NoHead
    ELSE LET c == CHOOSE c \in cps : c.id = CHAIN_HEAD
         IN [present |-> TRUE, number |-> c.block_number, hash |-> c.block_hash]

-----------------------------------------------------------------------------
(* The transaction bodies of insertBatch, bulkInsert and rollbackState *)

\* the for loop of insertBatch over data[1..n]: the rows after the inserts
RECURSIVE InsertLoop(_, _, _)
InsertLoop(tbl, data, n) ==
    IF n = 0 THEN tbl
    ELSE InsertOnConflictDoNothing(InsertLoop(tbl, data, n - 1), data[n])

\* maxBlockNum / maxBlockHash after the loop has seen data[1..n]
RECURSIVE MaxScan(_, _)
MaxScan(data, n) ==
    IF n = 0 THEN [maxBlockNum |-> -1, maxBlockHash |-> ""]
    ELSE LET m == MaxScan(data, n - 1)
         IN IF data[n].blockNumber > m.maxBlockNum
            THEN [maxBlockNum |-> data[n].blockNumber, maxBlockHash |-> data[n].blockHash]
            ELSE m

\* the batch committed without the checkpoint write
CheckpointAfterSkipped(cps, data) == cps

\* if (maxBlockNum !== -1 && maxBlockHash) saveCheckpoint(...)
CheckpointAfter(cps, data) ==
    LET m == MaxScan(data, Len(data))
    IN IF m.maxBlockNum # -1 /\ m.maxBlockHash # ""
       THEN saveCheckpoint(cps, m.maxBlockNum, m.maxBlockHash)
       ELSE cps

\* insertBatch between BEGIN and COMMIT
insertBatchTxn(store, data) ==
    [transactions |-> InsertLoop(store.transactions, data, Len(data)),
     checkpoints |-> CheckpointAfter(store.checkpoints, data)]

\* COPY into the staging table (LIKE transactions: no primary key, so a bag of
\* rows in arrival order), then INSERT ... SELECT * FROM staging ON CONFLICT DO NOTHING
\* the staging columns the model keeps, in the order of the COPY column list
StagingColumns == <<"tx_hash", "block_number", "block_hash", "to_address">>

RECURSIVE Join(_, _)
Join(fields, sep) ==
    IF Len(fields) = 0 THEN ""
    ELSE IF Len(fields) = 1 THEN fields[1]
    ELSE fields[1] \o sep \o Join(Tail(fields), sep)

\* [tx.transactionHash, tx.blockNumber, tx.blockHash, ..., tx.to || "\\N", ...].join("\t") + "\n"
TsvRow(tx) ==
    Join(<<tx.transactionHash, ToString(tx.blockNumber), tx.blockHash,
           IF ToIsFalsy(tx) THEN "\\N" ELSE tx.to[1]>>, "\t") \o "\n"

\* the stream piped into COPY: the rows pushed one after the other
RECURSIVE CopyStream(_, _)
CopyStream(data, n) == IF n = 0 THEN "" ELSE CopyStream(data, n - 1) \o TsvRow(data[n])

\* the text format of COPY cut at a delimiter: a backslash takes the character
\* after it with it, so an escaped delimiter does not cut
RECURSIVE CopySplit(_, _, _, _)
CopySplit(s, delim, i, cur) ==
    IF i > Len(s) THEN <<cur>>
    ELSE IF SubSeq(s, i, i) = "\\" /\ i < Len(s)
    THEN CopySplit(s, delim, i + 2, cur \o SubSeq(s, i, i + 1))
    ELSE IF SubSeq(s, i, i) = delim THEN <<cur>> \o CopySplit(s, delim, i + 1, "")
    ELSE CopySplit(s, delim, i + 1, cur \o SubSeq(s, i, i))

\* the lines of the stream: the text after the last newline is a line only if
\* it is not empty
CopyLines(s) ==
    LET cut == CopySplit(s, "\n", 1, "")
    IN IF cut[Len(cut)] = "" THEN SubSeq(cut, 1, Len(cut) - 1) ELSE cut

\* the character a backslash sequence of the text format stands for (of the
\* sequences TLA+ strings can hold; any other character stands for itself)
CopyEscape(c) ==
    CASE c = "t" -> "\t"
      [] c = "n" -> "\n"
      [] c = "r" -> "\r"
      [] c = "f" -> "\f"
      [] OTHER -> c

RECURSIVE CopyUnescape(_, _)
CopyUnescape(raw, i) ==
    IF i > Len(raw) THEN ""
    ELSE IF SubSeq(raw, i, i) = "\\"
    THEN IF i = Len(raw) THEN ""
         ELSE CopyEscape(SubSeq(raw, i + 1, i + 1)) \o CopyUnescape(raw, i + 2)
    ELSE SubSeq(raw, i, i) \o CopyUnescape(raw, i + 1)

\* a field of a line: \N as it stands is NULL, anything else is de-escaped
CopyField(raw) == IF raw = "\\N" THEN NULL ELSE <<CopyUnescape(raw, 1)>>

\* the value of a decimal digit, -1 for any other character
DigitValue(c) ==
    CASE c = "0" -> 0 [] c = "1" -> 1 [] c = "2" -> 2 [] c = "3" -> 3 [] c = "4" -> 4
      [] c = "5" -> 5 [] c = "6" -> 6 [] c = "7" -> 7 [] c = "8" -> 8 [] c = "9" -> 9
      [] OTHER -> -1

\* the NUMERIC input of block_number over the first n characters of the digits
\* String(tx.blockNumber) writes; -1 where the text is no such number
RECURSIVE NumericIn(_, _)
NumericIn(s, n) ==
    IF n = 0 THEN 0
    ELSE LET high == NumericIn(s, n - 1)
             d == DigitValue(SubSeq(s, n, n))
         IN IF high = -1 \/ d = -1 THEN -1 ELSE 10 * high + d

IsNumeric(field) == field # NULL /\ Len(field[1]) > 0 /\ NumericIn(field[1], Len(field[1])) # -1

\* const x = e: e is computed once and its value handed on
Const(e, F(_)) == CHOOSE r \in {F(x) : x \in {e}} : TRUE

\* a line of the stream as a staging row; ok is FALSE where COPY raises (missing
\* or extra columns, NULL in a NOT NULL column, a block number that is no number)
CopyLine(line) ==
    Const(CopySplit(line, "\t", 1, ""), LAMBDA fields :
        IF ~(/\ Len(fields) = Len(StagingColumns)
             /\ CopyField(fields[1]) # NULL
             /\ IsNumeric(CopyField(fields[2]))
             /\ CopyField(fields[3]) # NULL)
        THEN [ok |-> FALSE]
        ELSE [ok |-> TRUE,
              row |-> [tx_hash |-> CopyField(fields[1])[1],
                       block_number |->
                           NumericIn(CopyField(fields[2])[1], Len(CopyField(fields[2])[1])),
                       block_hash |-> CopyField(fields[3])[1],
                       to_address |-> CopyField(fields[4])]])

RECURSIVE CopyEachLine(_, _)
CopyEachLine(lines, n) ==
    IF n = 0 THEN <<>> ELSE Append(CopyEachLine(lines, n - 1), CopyLine(lines[n]))

\* COPY staging_transactions (...) FROM STDIN over the rows of data
CopyFrom(data) ==
    Const(CopyStream(data, Len(data)), LAMBDA stream :
        Const(CopyLines(stream), LAMBDA lines : CopyEachLine(lines, Len(lines))))

\* the pipeline into COPY ends without an error
CopyAccepts(data) == Const(CopyFrom(data), LAMBDA copied : \A i \in 1..Len(copied) : copied[i].ok)

RECURSIVE CopiedRows(_, _)
CopiedRows(copied, n) ==
    IF n = 0 THEN <<>> ELSE Append(CopiedRows(copied, n - 1), copied[n].row)

\* the rows COPY leaves in the staging table, in arrival order
StagingRows(data) == Const(CopyFrom(data), LAMBDA copied : CopiedRows(copied, Len(copied)))

RECURSIVE MergeStaging(_, _, _)
MergeStaging(tbl, staging, n) ==
    IF n = 0 THEN tbl
    ELSE LET before == MergeStaging(tbl, staging, n - 1)
         IN IF Conflicts(before, staging[n]) THEN before ELSE before (+) SetToBag({staging[n]})

\* bulkInsert between BEGIN and COMMIT
bulkInsertTxn(store, data) ==
    Const(StagingRows(data), LAMBDA staging :
        [transactions |-> MergeStaging(store.transactions, staging, Len(staging)),
         checkpoints |-> CheckpointAfter(store.checkpoints, data)])

\* rollbackState between BEGIN and COMMIT
rollbackStateTxn(store, forkBlockNumber) ==
    LET prevBlock == forkBlockNumber - 1
    IN [transactions |-> DeleteFrom(store.transactions, forkBlockNumber),
        checkpoints |-> UpdateCheckpoint(store.checkpoints, prevBlock)]

\* the rows written by the failed transaction stay
RollbackKeepsRows(before, work) ==
    [transactions |-> work.transactions, checkpoints |-> before.checkpoints]

\* mutant of ROLLBACK: the work of the failed transaction stays
RollbackKeepsWork(before, work) == work

\* catch: ROLLBACK discards the work of the transaction
ROLLBACK(before, work) == before

\* insertBatch(data) that runs to COMMIT (or returns at once on an empty batch)
insertBatch(store, data) ==
    IF Len(data) = 0 THEN store ELSE insertBatchTxn(store, data)

\* insertBatch(data) in which the query after `done` inserts throws
insertBatchThrows(store, data, done) ==
    LET work == [transactions |-> InsertLoop(store.transactions, data, done),
                 checkpoints |-> store.checkpoints]
    IN ROLLBACK(store, work)

\* bulkInsert(data) that runs to COMMIT (or returns at once on an empty batch)
bulkInsert(store, data) ==
    IF Len(data) = 0 THEN store ELSE bulkInsertTxn(store, data)

\* bulkInsert(data) in which the checkpoint update (merged) or an earlier query throws
bulkInsertThrows(store, data, merged) ==
    LET work == [transactions |->
                     IF merged
                     THEN Const(StagingRows(data), LAMBDA staging :
                              MergeStaging(store.transactions, staging, Len(staging)))
                     ELSE store.transactions,
                 checkpoints |-> store.checkpoints]
    IN ROLLBACK(store, work)

\* rollbackState(forkBlockNumber) that runs to COMMIT
rollbackState(store, forkBlockNumber) == rollbackStateTxn(store, forkBlockNumber)

\* rollbackState in which the UPDATE (deleted) or the DELETE throws
rollbackStateThrows(store, forkBlockNumber, deleted) ==
    LET work == [transactions |->
                     IF deleted THEN DeleteFrom(store.transactions, forkBlockNumber)
                     ELSE store.transactions,
                 checkpoints |-> store.checkpoints]
    IN ROLLBACK(store, work)

Store == [transactions |-> transactions, checkpoints |-> checkpoints]

\* an empty batch returns before BEGIN
Outcome(data) == IF Len(data) = 0 THEN "return" ELSE "commit"

\* a completed call: the store it leaves, and the record of the call
Completed(after, op, outcome, n) ==
    /\ transactions' = after.transactions
    /\ checkpoints' = after.checkpoints
    /\ lastCall' = [op |-> op, outcome |-> outcome, n |-> n]

-----------------------------------------------------------------------------
(* Connections of the pool: pool.connect() hands each call a client of its own *)

Conns == {"client1", "client2"}

\* the open transaction has not written the checkpoint row
NoWrite == [written |-> FALSE, rows |-> {}]

\* a client in the pool, no call running on it
Released ==
    [pc |-> "released", op |-> "none", data |-> <<>>, n |-> 0, done |-> 0, staging |-> <<>>,
     ins |-> {}, del |-> {}, cp |-> NoWrite, alone |-> TRUE]

NoTransactions == [c \in Conns |-> Released]

-----------------------------------------------------------------------------
(* Spec: the persistence layer called sequentially, one call at a time *)

NoCall == [op |-> "none", outcome |-> "none", n |-> -1]
NoScenario == [phase |-> "none"]
NoHeader == [present |-> FALSE]

\* the daemon is not running
\* no call in flight
NoRpcCall == [method |-> "none", transports |-> <<>>]

\* the blockchain client module is not loaded
RpcOff ==
    /\ rpcUrls = <<>>
    /\ providers = <<>>
    /\ unhealthyProviders = {}
    /\ blockHeights = <<>>
    /\ responses = <<>>
    /\ client = <<>>
    /\ rpcCall = NoRpcCall

\* no safeParse call, no health check in progress, no daemon process
NotParsed == [pc |-> "off"]
NoTick == [pc |-> "off"]
NoProcess == [pc |-> "off"]
HostOff ==
    /\ parsed = NotParsed
    /\ monitor = NoTick
    /\ shutdown = NoProcess

\* no imu command is running
ImuOff == [command |-> "none", pc |-> "off"]

DaemonOff ==
    /\ chain = <<>>
    /\ forks = 0
    /\ settled = FALSE
    /\ pc = "off"
    /\ dbHead = NoHead
    /\ onChainBlockNumber = -1
    /\ targetBlockHeader = NoHeader
    /\ txs = <<>>
    /\ error = "none"

Init ==
    /\ transactions = EmptyBag
    /\ checkpoints = {}
    /\ lastCall = NoCall
    /\ scenario = NoScenario
    /\ conns = NoTransactions
    /\ DaemonOff
    /\ RpcOff
    /\ imu = ImuOff
    /\ HostOff

InsertBatch(data) ==
    /\ Completed(insertBatch(Store, data), "insertBatch", Outcome(data), Len(data))
    /\ UNCHANGED <<hostVars, rpcVars, imu, scenario, conns, daemonVars>>

InsertBatchThrows(data, done) ==
    /\ Len(data) # 0
    /\ done <= Len(data)
    /\ Completed(insertBatchThrows(Store, data, done), "insertBatch", "throw", Len(data))
    /\ UNCHANGED <<hostVars, rpcVars, imu, scenario, conns, daemonVars>>

BulkInsert(data) ==
    /\ Completed(bulkInsert(Store, data), "bulkInsert", Outcome(data), Len(data))
    /\ UNCHANGED <<hostVars, rpcVars, imu, scenario, conns, daemonVars>>

BulkInsertThrows(data, merged) ==
    /\ Len(data) # 0
    /\ Completed(bulkInsertThrows(Store, data, merged), "bulkInsert", "throw", Len(data))
    /\ UNCHANGED <<hostVars, rpcVars, imu, scenario, conns, daemonVars>>

RollbackState(forkBlockNumber) ==
    /\ Completed(rollbackState(Store, forkBlockNumber), "rollbackState", "commit",
                 forkBlockNumber)
    /\ UNCHANGED <<hostVars, rpcVars, imu, scenario, conns, daemonVars>>

RollbackStateThrows(forkBlockNumber, deleted) ==
    /\ Completed(rollbackStateThrows(Store, forkBlockNumber, deleted), "rollbackState",
                 "throw", forkBlockNumber)
    /\ UNCHANGED <<hostVars, rpcVars, imu, scenario, conns, daemonVars>>

Next ==
    \/ \E data \in Batches : InsertBatch(data)
    \/ \E data \in Batches, done \in 0..MaxBatch : InsertBatchThrows(data, done)
    \/ \E data \in Batches : BulkInsert(data)
    \/ \E data \in Batches, merged \in BOOLEAN : BulkInsertThrows(data, merged)
    \/ \E n \in ForkPoints : RollbackState(n)
    \/ \E n \in ForkPoints, deleted \in BOOLEAN : RollbackStateThrows(n, deleted)

Spec == Init /\ [][Next]_vars

\* insertBatch and bulkInsert alone
NextCommit ==
    \/ \E data \in Batches : InsertBatch(data)
    \/ \E data \in Batches, done \in 0..MaxBatch : InsertBatchThrows(data, done)
    \/ \E data \in Batches : BulkInsert(data)
    \/ \E data \in Batches, merged \in BOOLEAN : BulkInsertThrows(data, merged)

SpecCommit == Init /\ [][NextCommit]_vars

-----------------------------------------------------------------------------
(* Properties of the persistence layer *)

Rows == BagToSet(transactions)
Checkpoint == getHeadBlock(checkpoints)

\* C1 (P1, I3): every persisted row with block B has checkpoint.block_number >= B
C1_NoRowAboveCheckpoint ==
    \A r \in Rows : Checkpoint.present /\ Checkpoint.number >= r.block_number

\* what rollback-to(N) promises (I4, P3): no row at or above N, checkpoint at N - 1
RollbackPost(n) ==
    /\ \A r \in Rows : r.block_number < n
    /\ Checkpoint.present /\ Checkpoint.number = n - 1

RollbackCommitted == lastCall.op = "rollbackState" /\ lastCall.outcome = "commit"

\* C2 as stated: after rollbackState(N) commits on any store, no row has
\* block_number >= N and the checkpoint row exists with block_number = N - 1
C2_RollbackPostAnyStore ==
    RollbackCommitted => RollbackPost(lastCall.n)

\* C2 amended: the same, for a store that holds a checkpoint row when
\* rollbackState(N) is called
C2_RollbackPost ==
    [][(Checkpoint.present /\ RollbackCommitted') => RollbackPost(lastCall.n)']_vars

C2_Witness ==
    /\ RollbackCommitted
    /\ Checkpoint.present /\ Checkpoint.number = lastCall.n - 1
    /\ Rows # {}

-----------------------------------------------------------------------------
(* SpecIdem: on any store the calls above can build, one commit call is made
   twice in a row with the same batch *)

InitIdem ==
    /\ transactions = EmptyBag
    /\ checkpoints = {}
    /\ lastCall = NoCall
    /\ scenario = [phase |-> "build"]
    /\ conns = NoTransactions
    /\ DaemonOff
    /\ RpcOff
    /\ imu = ImuOff
    /\ HostOff

CommitOps == {"insertBatch", "bulkInsert"}

Apply(op, store, data) ==
    IF op = "insertBatch" THEN insertBatch(store, data) ELSE bulkInsert(store, data)

IdemBuild ==
    /\ scenario.phase = "build"
    /\ Next

IdemOnce(op, data) ==
    /\ scenario.phase = "build"
    /\ LET after == Apply(op, Store, data)
       IN /\ Completed(after, op, Outcome(data), Len(data))
          /\ scenario' = [phase |-> "once", op |-> op, data |-> data,
                          before |-> Store, once |-> after]
    /\ UNCHANGED <<hostVars, rpcVars, imu, conns, daemonVars>>

IdemTwice ==
    /\ scenario.phase = "once"
    /\ Completed(Apply(scenario.op, Store, scenario.data), scenario.op,
                 Outcome(scenario.data), Len(scenario.data))
    /\ scenario' = [scenario EXCEPT !.phase = "twice"]
    /\ UNCHANGED <<hostVars, rpcVars, imu, conns, daemonVars>>

NextIdem ==
    \/ IdemBuild
    \/ \E op \in CommitOps, data \in Batches : IdemOnce(op, data)
    \/ IdemTwice

SpecIdem == InitIdem /\ [][NextIdem]_vars

\* C9 (P2, I5): insertBatch(X); insertBatch(X) leaves the rows (with their counts)
\* and the checkpoint that insertBatch(X) leaves, and so does bulkInsert
C9_Idempotent ==
    scenario.phase = "twice" => Store = scenario.once

C9_Witness ==
    /\ scenario.phase = "twice"
    /\ Len(scenario.data) >= 2
    /\ scenario.before.transactions # EmptyBag
    /\ scenario.before.transactions # scenario.once.transactions
    /\ scenario.before.checkpoints # scenario.once.checkpoints

-----------------------------------------------------------------------------
(* SpecReplay: a store built by insertBatch(R), then rollbackState(N), then
   insertBatch of the records of R at or above N *)

InitReplay ==
    /\ transactions = EmptyBag
    /\ checkpoints = {}
    /\ lastCall = NoCall
    /\ scenario = [phase |-> "start"]
    /\ conns = NoTransactions
    /\ DaemonOff
    /\ RpcOff
    /\ imu = ImuOff
    /\ HostOff

FromBlock(data, n) == SelectSeq(data, LAMBDA tx : tx.blockNumber >= n)

ReplayBuild(data) ==
    /\ scenario.phase = "start"
    /\ LET after == insertBatch(Store, data)
       IN /\ Completed(after, "insertBatch", Outcome(data), Len(data))
          /\ scenario' = [phase |-> "built", data |-> data, built |-> after]
    /\ UNCHANGED <<hostVars, rpcVars, imu, conns, daemonVars>>

ReplayRollback(n) ==
    /\ scenario.phase = "built"
    /\ Completed(rollbackState(Store, n), "rollbackState", "commit", n)
    /\ scenario' = [phase |-> "rolledBack", data |-> scenario.data,
                    built |-> scenario.built, n |-> n]
    /\ UNCHANGED <<hostVars, rpcVars, imu, conns, daemonVars>>

ReplayAppend ==
    /\ scenario.phase = "rolledBack"
    /\ LET data == FromBlock(scenario.data, scenario.n)
       IN Completed(insertBatch(Store, data), "insertBatch", Outcome(data), Len(data))
    /\ scenario' = [scenario EXCEPT !.phase = "replayed"]
    /\ UNCHANGED <<hostVars, rpcVars, imu, conns, daemonVars>>

NextReplay ==
    \/ \E data \in Batches : ReplayBuild(data)
    \/ \E n \in ForkPoints : ReplayRollback(n)
    \/ ReplayAppend

SpecReplay == InitReplay /\ [][NextReplay]_vars

\* C10 as stated (P4): rollbackState(N) followed by insertBatch of the records
\* at or above N restores the rows and the checkpoint, for every N
C10_ReplayRestoresAnyN ==
    scenario.phase = "replayed" => Store = scenario.built

\* C10 amended: the same for N <= checkpoint.block_number + 1 (any N when the
\* store is empty and holds no checkpoint)
C10_ReplayRestores ==
    (/\ scenario.phase = "replayed"
     /\ LET head == getHeadBlock(scenario.built.checkpoints)
        IN head.present => scenario.n <= head.number + 1)
    => Store = scenario.built

C10_Witness ==
    /\ scenario.phase = "replayed"
    /\ \E r \in Rows : r.block_number >= scenario.n
    /\ \E r \in Rows : r.block_number < scenario.n
    /\ Checkpoint.present /\ scenario.n <= Checkpoint.number

-----------------------------------------------------------------------------
(* The chain as the RPC endpoint serves it *)

MaxHeight == 3     \* highest block number the chain reaches
MaxForks == 2      \* most reorganizations in a run

\* the transaction hashes a block may hold
BlockTxChoices == {<<>>, <<"t1">>}

\* a block hash is unique to its block: here a text of its number and the fork it
\* was mined on
HashOf(number, fork) == "h" \o ToString(number) \o "f" \o ToString(fork)
ZeroHash == "h0"

Genesis ==
    [number |-> 0, hash |-> HashOf(0, 0), parentHash |-> ZeroHash, transactions |-> <<>>]

ChainHead == Len(chain) - 1
HasBlock(n) == n \in 0..ChainHead
BlockAt(n) == chain[n + 1]

\* a block is mined on top of the head
NewBlock(t) ==
    /\ ~settled
    /\ ChainHead < MaxHeight
    /\ chain' = Append(chain, [number |-> Len(chain), hash |-> HashOf(Len(chain), forks),
                               parentHash |-> chain[Len(chain)].hash, transactions |-> t])
    /\ UNCHANGED <<hostVars, rpcVars, imu,
                   storeVars, lastCall, scenario, conns, forks, settled, pc, localVars>>

\* the blocks from number k on are replaced by blocks of a new fork
Reorg(k, t) ==
    /\ ~settled
    /\ forks < MaxForks
    /\ k \in 1..ChainHead
    /\ forks' = forks + 1
    /\ chain' = [i \in 1..Len(chain) |->
                    IF i <= k THEN chain[i]
                    ELSE [number |-> i - 1, hash |-> HashOf(i - 1, forks + 1),
                          parentHash |-> IF i = k + 1 THEN chain[k].hash
                                         ELSE HashOf(i - 2, forks + 1),
                          transactions |-> t]]
    /\ UNCHANGED <<hostVars,
                   rpcVars, imu, storeVars, lastCall, scenario, conns, settled, pc, localVars>>

\* from here on the chain stays as it is and RPC and database calls succeed
Settle ==
    /\ ~settled
    /\ settled' = TRUE
    /\ UNCHANGED <<hostVars,
                   rpcVars, imu, storeVars, lastCall, scenario, conns, chain, forks, pc, localVars>>

-----------------------------------------------------------------------------
(* RPC calls of the blockchain client *)

\* fetchBlockHeader(blockNumber): client.getBlock({ blockNumber })
fetchBlockHeader(blockNumber) ==
    LET block == BlockAt(blockNumber)
    IN [present |-> TRUE, number |-> block.number, hash |-> block.hash,
        parentHash |-> block.parentHash]

\* fetchBlockData(blockNumber): the block's transactions in the schema's shape
fetchBlockData(blockNumber) ==
    LET block == BlockAt(blockNumber)
    IN [i \in 1..Len(block.transactions) |->
            [transactionHash |-> block.transactions[i], blockNumber |-> block.number,
             blockHash |-> block.hash]]

-----------------------------------------------------------------------------
(* main() of the indexer daemon: one action per await of the loop body *)

InitDaemon ==
    /\ transactions = EmptyBag
    /\ checkpoints = {}
    /\ lastCall = NoCall
    /\ scenario = NoScenario
    /\ conns = NoTransactions
    /\ chain = <<Genesis>>
    /\ forks = 0
    /\ settled = FALSE
    /\ pc = "getHeadBlock"
    /\ dbHead = NoHead
    /\ onChainBlockNumber = -1
    /\ targetBlockHeader = NoHeader
    /\ txs = <<>>
    /\ error = "none"
    /\ RpcOff
    /\ imu = ImuOff
    /\ HostOff

targetBlockNum == IF dbHead.present THEN dbHead.number + 1 ELSE onChainBlockNumber

\* the comparison taken on the target block's own hash
ReorgDetectedOwnHash(header, head) == header.hash # head.hash

\* 4. Re-org Detection: targetBlockHeader.parentHash !== dbHead.hash
ReorgDetected(header, head) == header.parentHash # head.hash

\* const dbHead = await getHeadBlock()
DaemonGetHeadBlock ==
    /\ pc = "getHeadBlock"
    /\ dbHead' = getHeadBlock(checkpoints)
    /\ onChainBlockNumber' = -1
    /\ targetBlockHeader' = NoHeader
    /\ txs' = <<>>
    /\ error' = "none"
    /\ pc' = "getBlockNumber"
    /\ UNCHANGED <<hostVars, rpcVars, imu, storeVars, lastCall, scenario, conns, chainVars>>

\* const onChainBlockNumber = await client.getBlockNumber(), and the branch taken
DaemonGetBlockNumber ==
    /\ pc = "getBlockNumber"
    /\ onChainBlockNumber' = ChainHead
    /\ pc' = IF ~dbHead.present THEN "coldFetchBlockData"
             ELSE IF dbHead.number + 1 > ChainHead THEN "atHead"
             ELSE "fetchBlockHeader"
    /\ UNCHANGED <<hostVars, rpcVars, imu,
                   storeVars, lastCall, scenario, conns, chainVars, dbHead, targetBlockHeader, txs,
                   error>>

\* database empty: const txs = await fetchBlockData(Number(onChainBlockNumber))
DaemonColdFetchBlockData ==
    /\ pc = "coldFetchBlockData"
    /\ HasBlock(onChainBlockNumber)
    /\ txs' = fetchBlockData(onChainBlockNumber)
    /\ pc' = IF Len(txs') > 0 THEN "coldInsertBatch" ELSE "coldFetchBlockHeader"
    /\ UNCHANGED <<hostVars, rpcVars, imu,
                   storeVars, lastCall, scenario, conns, chainVars, dbHead, onChainBlockNumber,
                   targetBlockHeader, error>>

\* database empty: await insertBatch(txs)
DaemonColdInsertBatch ==
    /\ pc = "coldInsertBatch"
    /\ LET after == insertBatch(Store, txs)
       IN /\ transactions' = after.transactions
          /\ checkpoints' = after.checkpoints
    /\ pc' = "coldSleep"
    /\ UNCHANGED <<hostVars, rpcVars, imu, lastCall, scenario, conns, chainVars, localVars>>

\* database empty, empty block: const header = await fetchBlockHeader(...)
DaemonColdFetchBlockHeader ==
    /\ pc = "coldFetchBlockHeader"
    /\ HasBlock(onChainBlockNumber)
    /\ targetBlockHeader' = fetchBlockHeader(onChainBlockNumber)
    /\ pc' = IF targetBlockHeader'.present /\ targetBlockHeader'.hash # ""
             THEN "coldSaveCheckpoint" ELSE "coldSleep"
    /\ UNCHANGED <<hostVars, rpcVars, imu,
                   storeVars, lastCall, scenario, conns, chainVars, dbHead, onChainBlockNumber, txs,
                   error>>

\* database empty, empty block: await saveCheckpoint(getPool(), onChainBlockNumber, header.hash)
DaemonColdSaveCheckpoint ==
    /\ pc = "coldSaveCheckpoint"
    /\ checkpoints' = saveCheckpoint(checkpoints, onChainBlockNumber, targetBlockHeader.hash)
    /\ pc' = "coldSleep"
    /\ UNCHANGED <<hostVars,
                   rpcVars, imu, transactions, lastCall, scenario, conns, chainVars, localVars>>

\* await sleep(POLLING_INTERVAL_MS) / await sleep(5000), then the next iteration
DaemonSleep ==
    /\ pc \in {"coldSleep", "atHead", "catch"}
    /\ pc' = "getHeadBlock"
    /\ UNCHANGED <<hostVars,
                   rpcVars, imu, storeVars, lastCall, scenario, conns, chainVars, localVars>>

\* const targetBlockHeader = await fetchBlockHeader(targetBlockNum), and the re-org check
DaemonFetchBlockHeader ==
    /\ pc = "fetchBlockHeader"
    /\ HasBlock(targetBlockNum)
    /\ targetBlockHeader' = fetchBlockHeader(targetBlockNum)
    /\ pc' = IF ReorgDetected(targetBlockHeader', dbHead) THEN "rollbackState"
             ELSE "fetchBlockData"
    /\ UNCHANGED <<hostVars, rpcVars, imu,
                   storeVars, lastCall, scenario, conns, chainVars, dbHead, onChainBlockNumber, txs,
                   error>>

\* the endpoint has no block of the requested number: getBlock throws
DaemonBlockNotFound ==
    /\ pc \in {"fetchBlockHeader", "fetchBlockData", "coldFetchBlockData",
               "coldFetchBlockHeader"}
    /\ ~HasBlock(targetBlockNum)
    /\ error' = "rpc"
    /\ pc' = "catch"
    /\ UNCHANGED <<hostVars, rpcVars, imu,
                   storeVars, lastCall, scenario, conns, chainVars, dbHead, onChainBlockNumber,
                   targetBlockHeader, txs>>

\* await rollbackState(dbHead.number); continue
DaemonRollbackState ==
    /\ pc = "rollbackState"
    /\ LET after == rollbackState(Store, dbHead.number)
       IN /\ transactions' = after.transactions
          /\ checkpoints' = after.checkpoints
    /\ pc' = "getHeadBlock"
    /\ UNCHANGED <<hostVars, rpcVars, imu, lastCall, scenario, conns, chainVars, localVars>>

\* const txs = await fetchBlockData(targetBlockNum)
DaemonFetchBlockData ==
    /\ pc = "fetchBlockData"
    /\ HasBlock(targetBlockNum)
    /\ txs' = fetchBlockData(targetBlockNum)
    /\ pc' = IF Len(txs') > 0 THEN "insertBatch"
             ELSE IF targetBlockHeader.present /\ targetBlockHeader.hash # ""
             THEN "saveCheckpoint"
             ELSE "getHeadBlock"
    /\ UNCHANGED <<hostVars, rpcVars, imu,
                   storeVars, lastCall, scenario, conns, chainVars, dbHead, onChainBlockNumber,
                   targetBlockHeader, error>>

\* await insertBatch(txs)
DaemonInsertBatch ==
    /\ pc = "insertBatch"
    /\ LET after == insertBatch(Store, txs)
       IN /\ transactions' = after.transactions
          /\ checkpoints' = after.checkpoints
    /\ pc' = "getHeadBlock"
    /\ UNCHANGED <<hostVars, rpcVars, imu, lastCall, scenario, conns, chainVars, localVars>>

\* empty block: await saveCheckpoint(getPool(), targetBlockNum, targetBlockHeader.hash)
DaemonSaveCheckpoint ==
    /\ pc = "saveCheckpoint"
    /\ checkpoints' = saveCheckpoint(checkpoints, targetBlockNum, targetBlockHeader.hash)
    /\ pc' = "getHeadBlock"
    /\ UNCHANGED <<hostVars,
                   rpcVars, imu, transactions, lastCall, scenario, conns, chainVars, localVars>>

RpcAwaits == {"getBlockNumber", "coldFetchBlockData", "coldFetchBlockHeader",
              "fetchBlockHeader", "fetchBlockData"}
DbAwaits == {"getHeadBlock", "coldInsertBatch", "coldSaveCheckpoint", "insertBatch",
             "saveCheckpoint"}

\* an awaited call throws (the persistence calls after their own ROLLBACK):
\* catch (error) at the loop boundary
DaemonCatch ==
    /\ ~settled
    /\ pc \in RpcAwaits \cup DbAwaits \cup {"rollbackState"}
    /\ error' = IF pc \in RpcAwaits THEN "rpc"
                ELSE IF pc = "rollbackState" THEN "rollbackState"
                ELSE "persistence"
    /\ \E done \in 0..Len(txs), deleted \in BOOLEAN :
        LET after == IF pc \in {"insertBatch", "coldInsertBatch"}
                     THEN insertBatchThrows(Store, txs, done)
                     ELSE IF pc = "rollbackState"
                     THEN rollbackStateThrows(Store, dbHead.number, deleted)
                     ELSE Store
        IN /\ transactions' = after.transactions
           /\ checkpoints' = after.checkpoints
    /\ pc' = "catch"
    /\ UNCHANGED <<hostVars,
                   rpcVars, imu, lastCall, scenario, conns, chainVars, dbHead, onChainBlockNumber,
                   targetBlockHeader, txs>>

DaemonStep ==
    \/ DaemonGetHeadBlock
    \/ DaemonGetBlockNumber
    \/ DaemonColdFetchBlockData
    \/ DaemonColdInsertBatch
    \/ DaemonColdFetchBlockHeader
    \/ DaemonColdSaveCheckpoint
    \/ DaemonSleep
    \/ DaemonFetchBlockHeader
    \/ DaemonBlockNotFound
    \/ DaemonRollbackState
    \/ DaemonFetchBlockData
    \/ DaemonInsertBatch
    \/ DaemonSaveCheckpoint
    \/ DaemonCatch

NextDaemon ==
    \/ \E t \in BlockTxChoices : NewBlock(t)
    \/ \E k \in 1..MaxHeight, t \in BlockTxChoices : Reorg(k, t)
    \/ Settle
    \/ DaemonGetHeadBlock
    \/ DaemonGetBlockNumber
    \/ DaemonColdFetchBlockData
    \/ DaemonColdInsertBatch
    \/ DaemonColdFetchBlockHeader
    \/ DaemonColdSaveCheckpoint
    \/ DaemonSleep
    \/ DaemonFetchBlockHeader
    \/ DaemonBlockNotFound
    \/ DaemonRollbackState
    \/ DaemonFetchBlockData
    \/ DaemonInsertBatch
    \/ DaemonSaveCheckpoint
    \/ DaemonCatch

SpecDaemon == InitDaemon /\ [][NextDaemon]_vars

\* the loop never stops taking steps
FairSpecDaemon == SpecDaemon /\ WF_vars(DaemonStep)

-----------------------------------------------------------------------------
(* Properties of the ingestion loop *)

\* the block of number n that the store holds rows of is still on the chain
StillCanonical(n) ==
    /\ HasBlock(n)
    /\ \E r \in Rows : r.block_number = n /\ r.block_hash = BlockAt(n).hash

\* C3: the loop rolls back one block per iteration only down to the common
\* ancestor: whenever it is about to roll back block dbHead.number, the rows it
\* holds of that block are not rows of the block now canonical at that height.
C3_NeverRollsBackCanonical ==
    pc = "rollbackState" => ~StillCanonical(dbHead.number)

AtHead ==
    /\ pc = "atHead"
    /\ Checkpoint.present
    /\ Checkpoint.number = ChainHead
    /\ Checkpoint.hash = BlockAt(ChainHead).hash

\* C4: once calls succeed and the chain has stopped changing, the loop
\* eventually waits at the head with the checkpoint equal to
\* (chainHead, canonical hash of chainHead).
C4_EventuallyAtHead == settled ~> AtHead

\* C5: a rollback leaves the checkpoint holding the hash of the block that is
\* canonical at the checkpoint's block number when the rollback commits.
C5_RollbackCheckpointHash ==
    [][(pc = "rollbackState" /\ pc' = "getHeadBlock" /\ Checkpoint'.present
            /\ HasBlock(Checkpoint'.number))
        => Checkpoint'.hash = BlockAt(Checkpoint'.number).hash]_vars

\* C6: in an iteration that read a checkpoint, a step that changes the store
\* either follows a header of block dbHead.number + 1 whose parentHash is the
\* checkpoint hash read at the start of the iteration, and then only adds rows
\* and moves the checkpoint to that block, or follows a header whose parentHash
\* differs, and then is exactly rollbackState(dbHead.number) and adds no row;
\* and a header whose parentHash differs always leads to the rollback.
C6_LineageSafety ==
    [][/\ (dbHead.present /\ storeVars' # storeVars) =>
            /\ targetBlockHeader.present
            /\ targetBlockHeader.number = dbHead.number + 1
            /\ IF targetBlockHeader.parentHash = dbHead.hash
               THEN /\ transactions \sqsubseteq transactions'
                    /\ Checkpoint'.present
                    /\ Checkpoint'.number = dbHead.number + 1
               ELSE /\ Store' = rollbackState(Store, dbHead.number)
                    /\ BagToSet(transactions') \subseteq Rows
       /\ (pc = "fetchBlockHeader" /\ targetBlockHeader'.present) =>
            (pc' = "rollbackState" <=> targetBlockHeader'.parentHash # dbHead.hash)
       /\ (pc = "rollbackState" /\ pc' = "getHeadBlock") =>
            targetBlockHeader.parentHash # dbHead.hash
      ]_vars

\* a mismatch was found and the rows of block dbHead.number have been rolled back
C6_Witness ==
    /\ pc = "getHeadBlock"
    /\ dbHead.present
    /\ targetBlockHeader.present
    /\ targetBlockHeader.parentHash # dbHead.hash
    /\ Checkpoint.present
    /\ Checkpoint.number = dbHead.number - 1
    /\ Rows # {}

\* C7: once rollbackState has thrown in the re-org branch the loop takes no
\* further step.
C7_HaltsAfterRollbackFailure ==
    [][(pc = "catch" /\ error = "rollbackState") => pc' = pc]_vars

\* the await at pc returned and the loop went on (it neither threw nor stuttered)
Returned(at) == pc = at /\ pc' \notin {at, "catch"}

\* C20: an iteration whose block has zero transactions ends with the checkpoint
\* equal to (the block's number, the hash of the header fetched for it).  At
\* cold start an empty fetchBlockData(onChainBlockNumber) leads to the header
\* fetch and to saveCheckpoint(onChainBlockNumber, header.hash); in the syncing
\* branch an empty fetchBlockData(targetBlockNum) leads to
\* saveCheckpoint(targetBlockNum, targetBlockHeader.hash); either write leaves
\* the transactions as they are and ends the iteration.
C20_EmptyBlockProgress ==
    [][/\ (Returned("coldFetchBlockData") /\ Len(txs') = 0) => pc' = "coldFetchBlockHeader"
       /\ Returned("coldFetchBlockHeader") =>
            /\ pc' = "coldSaveCheckpoint"
            /\ targetBlockHeader'.number = onChainBlockNumber
       /\ Returned("coldSaveCheckpoint") =>
            /\ pc' = "coldSleep"
            /\ Checkpoint' = [present |-> TRUE, number |-> onChainBlockNumber,
                              hash |-> targetBlockHeader.hash]
            /\ transactions' = transactions
       /\ (Returned("fetchBlockData") /\ Len(txs') = 0) => pc' = "saveCheckpoint"
       /\ Returned("saveCheckpoint") =>
            /\ pc' = "getHeadBlock"
            /\ targetBlockHeader.number = dbHead.number + 1
            /\ Checkpoint' = [present |-> TRUE, number |-> dbHead.number + 1,
                              hash |-> targetBlockHeader.hash]
            /\ transactions' = transactions
      ]_vars

\* the syncing branch has advanced the checkpoint over an empty block
C20_Witness ==
    /\ pc = "getHeadBlock"
    /\ dbHead.present
    /\ txs = <<>>
    /\ targetBlockHeader.present
    /\ targetBlockHeader.number = dbHead.number + 1
    /\ Checkpoint = [present |-> TRUE, number |-> dbHead.number + 1,
                     hash |-> targetBlockHeader.hash]

ColdCommits == {"coldInsertBatch", "coldSaveCheckpoint"}
SyncCommits == {"insertBatch", "saveCheckpoint"}

\* C24: the store changes only in the step of the one persistence call the
\* loop is awaiting; the commit on an empty store puts the checkpoint at the
\* chain head the iteration observed; every later commit of the loop is made
\* with a checkpoint present and moves it from block n to block n + 1.
C24_AscendingSingleFlight ==
    [][/\ storeVars' # storeVars =>
            (pc \in ColdCommits \cup SyncCommits \cup {"rollbackState"} /\ pc' # pc)
       /\ (\E at \in ColdCommits : Returned(at)) =>
            /\ ~Checkpoint.present
            /\ Checkpoint'.present
            /\ Checkpoint'.number = onChainBlockNumber
       /\ (\E at \in SyncCommits : Returned(at)) =>
            /\ Checkpoint.present
            /\ Checkpoint'.present
            /\ Checkpoint'.number = Checkpoint.number + 1
      ]_vars

\* the loop has committed a block with transactions on top of its checkpoint
C24_Witness ==
    /\ pc = "getHeadBlock"
    /\ dbHead.present
    /\ txs # <<>>
    /\ Checkpoint.present
    /\ Checkpoint.number = dbHead.number + 1
    /\ \E r \in Rows : r.block_number = Checkpoint.number

\* C28: an exception of an RPC call, of insertBatch or of saveCheckpoint is
\* thrown at the await the loop stands at and is caught at the loop boundary
\* with the rows and the checkpoint as they were before the call; from the
\* catch block the loop only sleeps and then starts the next iteration at
\* getHeadBlock, with the store unchanged, and reads the checkpoint again; the
\* loop is never left.
C28_CaughtAtLoopBoundary ==
    [][/\ (pc' = "catch" /\ pc # "catch" /\ error' \in {"rpc", "persistence"}) =>
            /\ pc \in RpcAwaits \cup DbAwaits
            /\ Store' = Store
       /\ (pc = "catch" /\ error \in {"rpc", "persistence"} /\ pc' # pc) =>
            /\ pc' = "getHeadBlock"
            /\ Store' = Store
       /\ (pc = "getHeadBlock" /\ pc' = "getBlockNumber") => dbHead' = Checkpoint
       /\ pc' # "off"
      ]_vars

\* insertBatch has thrown on a block with transactions, the loop has slept and
\* stands at the start of the next iteration with the store as it was
C28_Witness ==
    /\ pc = "getHeadBlock"
    /\ error = "persistence"
    /\ txs # <<>>
    /\ dbHead.present
    /\ Checkpoint = dbHead
    /\ \A r \in Rows : r.block_number <= dbHead.number

-----------------------------------------------------------------------------
(* SpecTxn: insertBatch, bulkInsert and rollbackState statement by statement,
   on two clients of the pool, under PostgreSQL's default READ COMMITTED *)

SameKey(r, q) == r.tx_hash = q.tx_hash /\ r.block_number = q.block_number

InTransaction(c) == conns[c].pc \notin {"released", "catch"}

\* what the statements of client c see: the committed rows, less the rows its
\* transaction deleted, plus the rows it inserted; its own checkpoint write
View(c) ==
    [transactions |->
        [r \in BagToSet(transactions) \ conns[c].del |-> transactions[r]]
            (+) SetToBag(conns[c].ins),
     checkpoints |-> IF conns[c].cp.written THEN conns[c].cp.rows ELSE checkpoints]

\* another open transaction holds an uncommitted insert or delete of the key of row
KeyLocked(c, row) ==
    \E d \in Conns \ {c} : \E r \in conns[d].ins \cup conns[d].del : SameKey(r, row)

\* another open transaction holds an uncommitted write of the checkpoint row
CheckpointLocked(c) == \E d \in Conns \ {c} : conns[d].cp.written

\* the uncommitted inserts and deletes of client c after a statement took its
\* view of transactions from `before` to `after`
Written(c, before, after) ==
    LET added == BagToSet(after) \ BagToSet(before)
        removed == BagToSet(before) \ BagToSet(after)
    IN [ins |-> (conns[c].ins \ removed) \cup added,
        del |-> conns[c].del \cup (removed \cap BagToSet(transactions))]

CallOps == {"insertBatch", "bulkInsert", "rollbackState"}

\* the batches handed to concurrent calls: records of one chain, on which a block
\* number has one block hash
TxnBatches == SeqsUpTo({r \in Records : r.blockHash = "hA"}, MaxBatch)

\* const client = await pool.connect(); await client.query("BEGIN")
TxnBegin(c, op, data, n) ==
    /\ conns[c].pc = "released"
    /\ op \in {"insertBatch", "bulkInsert"} => Len(data) > 0 /\ n = 0
    /\ op = "rollbackState" => data = <<>>
    /\ conns' = [conns EXCEPT ![c] =
                    [Released EXCEPT !.op = op, !.data = data, !.n = n,
                                     !.pc = IF op = "insertBatch" THEN "insert"
                                            ELSE IF op = "bulkInsert" THEN "staging"
                                            ELSE "delete"]]
    /\ UNCHANGED <<hostVars, rpcVars, imu, storeVars, lastCall, scenario, daemonVars>>

\* insertBatch: await client.query(query, [...]) for the next record of data
TxnInsert(c) ==
    LET tx == conns[c].data[conns[c].done + 1]
        before == View(c).transactions
        w == Written(c, before, InsertOnConflictDoNothing(before, tx))
    IN /\ conns[c].pc = "insert"
       /\ ~KeyLocked(c, ToRow(tx))
       /\ conns' = [conns EXCEPT ![c].ins = w.ins, ![c].del = w.del,
                                 ![c].done = conns[c].done + 1,
                                 ![c].pc = IF conns[c].done + 1 = Len(conns[c].data)
                                           THEN "checkpoint" ELSE "insert"]
       /\ UNCHANGED <<hostVars, rpcVars, imu, storeVars, lastCall, scenario, daemonVars>>

\* bulkInsert: CREATE TEMP TABLE staging_transactions ... ON COMMIT DROP
TxnStaging(c) ==
    /\ conns[c].pc = "staging"
    /\ conns' = [conns EXCEPT ![c].staging = <<>>, ![c].pc = "copy"]
    /\ UNCHANGED <<hostVars, rpcVars, imu, storeVars, lastCall, scenario, daemonVars>>

\* bulkInsert: COPY staging_transactions FROM STDIN, await pipeline(input, ingestStream)
TxnCopy(c) ==
    /\ conns[c].pc = "copy"
    /\ conns' = [conns EXCEPT ![c].staging = StagingRows(conns[c].data), ![c].pc = "merge"]
    /\ UNCHANGED <<hostVars, rpcVars, imu, storeVars, lastCall, scenario, daemonVars>>

\* bulkInsert: INSERT INTO transactions SELECT * FROM staging_transactions ON CONFLICT DO NOTHING
TxnMerge(c) ==
    LET staging == conns[c].staging
        before == View(c).transactions
        w == Written(c, before, MergeStaging(before, staging, Len(staging)))
    IN /\ conns[c].pc = "merge"
       /\ \A i \in 1..Len(staging) : ~KeyLocked(c, staging[i])
       /\ conns' = [conns EXCEPT ![c].ins = w.ins, ![c].del = w.del,
                                 ![c].done = Len(staging), ![c].pc = "checkpoint"]
       /\ UNCHANGED <<hostVars, rpcVars, imu, storeVars, lastCall, scenario, daemonVars>>

\* insertBatch, bulkInsert: if (maxBlockNum !== -1 && maxBlockHash)
\*     await saveCheckpoint(client, maxBlockNum, maxBlockHash)
TxnCheckpoint(c) ==
    LET before == View(c).checkpoints
        after == CheckpointAfter(before, conns[c].data)
    IN /\ conns[c].pc = "checkpoint"
       /\ ~CheckpointLocked(c)
       /\ conns' = [conns EXCEPT ![c].cp = [written |-> TRUE, rows |-> after],
                                 ![c].pc = "commit"]
       /\ UNCHANGED <<hostVars, rpcVars, imu, storeVars, lastCall, scenario, daemonVars>>

\* rollbackState: DELETE FROM transactions WHERE block_number >= $1
TxnDelete(c) ==
    LET before == View(c).transactions
        w == Written(c, before, DeleteFrom(before, conns[c].n))
    IN /\ conns[c].pc = "delete"
       /\ \A r \in BagToSet(before) : r.block_number >= conns[c].n => ~KeyLocked(c, r)
       /\ conns' = [conns EXCEPT ![c].ins = w.ins, ![c].del = w.del, ![c].pc = "update"]
       /\ UNCHANGED <<hostVars, rpcVars, imu, storeVars, lastCall, scenario, daemonVars>>

\* rollbackState: UPDATE checkpoints SET block_number = $1 ... WHERE id = 'chain_head'
TxnUpdate(c) ==
    LET before == View(c).checkpoints
        prevBlock == conns[c].n - 1
    IN /\ conns[c].pc = "update"
       /\ before # {} => ~CheckpointLocked(c)
       /\ conns' = [conns EXCEPT ![c].cp = IF before = {} THEN conns[c].cp
                                           ELSE [written |-> TRUE,
                                                 rows |-> UpdateCheckpoint(before, prevBlock)],
                                 ![c].pc = "commit"]
       /\ UNCHANGED <<hostVars, rpcVars, imu, storeVars, lastCall, scenario, daemonVars>>

\* await client.query("COMMIT"); finally client.release()
TxnCommit(c) ==
    LET after == View(c)
    IN /\ conns[c].pc = "commit"
       /\ transactions' = after.transactions
       /\ checkpoints' = after.checkpoints
       /\ conns' = [d \in Conns |->
                       IF d = c THEN Released
                       ELSE IF after # Store THEN [conns[d] EXCEPT !.alone = FALSE]
                       ELSE conns[d]]
       /\ UNCHANGED <<hostVars, rpcVars, imu, lastCall, scenario, daemonVars>>

\* a statement of the open transaction throws: control passes to catch (error)
TxnThrows(c) ==
    /\ InTransaction(c)
    /\ conns' = [conns EXCEPT ![c].pc = "catch"]
    /\ UNCHANGED <<hostVars, rpcVars, imu, storeVars, lastCall, scenario, daemonVars>>

\* catch: await client.query("ROLLBACK"); throw error; finally client.release()
TxnRollback(c) ==
    /\ conns[c].pc = "catch"
    /\ LET after == ROLLBACK(Store, View(c))
       IN /\ transactions' = after.transactions
          /\ checkpoints' = after.checkpoints
    /\ conns' = [conns EXCEPT ![c] = Released]
    /\ UNCHANGED <<hostVars, rpcVars, imu, lastCall, scenario, daemonVars>>

InitTxn ==
    /\ transactions = EmptyBag
    /\ checkpoints = {}
    /\ lastCall = NoCall
    /\ scenario = NoScenario
    /\ conns = NoTransactions
    /\ DaemonOff
    /\ RpcOff
    /\ imu = ImuOff
    /\ HostOff

NextTxn ==
    \/ \E c \in Conns, op \in CallOps, data \in TxnBatches, n \in ForkPoints :
            TxnBegin(c, op, data, n)
    \/ \E c \in Conns : TxnInsert(c)
    \/ \E c \in Conns : TxnStaging(c)
    \/ \E c \in Conns : TxnCopy(c)
    \/ \E c \in Conns : TxnMerge(c)
    \/ \E c \in Conns : TxnCheckpoint(c)
    \/ \E c \in Conns : TxnDelete(c)
    \/ \E c \in Conns : TxnUpdate(c)
    \/ \E c \in Conns : TxnCommit(c)
    \/ \E c \in Conns : TxnThrows(c)
    \/ \E c \in Conns : TxnRollback(c)

SpecTxn == InitTxn /\ [][NextTxn]_vars

\* the call of client c run alone and to its end on the committed store
WholeCall(store, call) ==
    IF call.op = "insertBatch" THEN insertBatch(store, call.data)
    ELSE IF call.op = "bulkInsert" THEN bulkInsert(store, call.data)
    ELSE rollbackState(store, call.n)

Commits(c) == conns[c].pc = "commit" /\ conns'[c].pc = "released"
Fails(c) == conns[c].pc = "catch" /\ conns'[c].pc = "released"

\* C8: the committed rows and checkpoint change only in the COMMIT of a call; a
\* call whose statement failed ends with both exactly as they were; and a call
\* that commits while no other call has committed since its BEGIN (the other
\* client idle, in progress or failing) leaves exactly the rows and the
\* checkpoint of the whole call, both or neither.
C8_Atomic ==
    [][/\ storeVars' # storeVars => \E c \in Conns : Commits(c)
       /\ \A c \in Conns : Fails(c) => Store' = Store
       /\ \A c \in Conns :
            (Commits(c) /\ conns[c].alone) => Store' = WholeCall(Store, conns[c])
      ]_vars

\* a call has committed rows and its checkpoint while the other client's call,
\* holding uncommitted inserts, has failed and is about to roll back
C8_Witness ==
    \E c \in Conns :
        /\ conns[c].pc = "catch"
        /\ conns[c].ins # {}
        /\ ~conns[c].alone
        /\ Rows # {}
        /\ Checkpoint.present

-----------------------------------------------------------------------------
(* ReliableProviderManager: health monitor and routing of the blockchain client *)

MaxUrls == 2          \* most endpoint URLs in RPC_URLS
MaxRpcHeight == 4     \* highest block height an endpoint answers
STALE_THRESHOLD == 3

UrlNames == <<"https://rpc-a", "https://rpc-b", "https://rpc-c", "https://rpc-d">>
DefaultUrl == "https://cloudflare-eth.com"

\* the values of RPC_URLS after split, trim and filter
RpcUrlLists == {SubSeq(UrlNames, 1, k) : k \in 0..MaxUrls}

\* an endpoint that throws in the health check
NoAnswer == -1
Answers == {NoAnswer} \cup 0..MaxRpcHeight

Urls(ps) == {ps[i] : i \in 1..Len(ps)}

\* constructor(providers): a default endpoint when none is configured
Constructor(urls) == IF Len(urls) = 0 THEN Append(urls, DefaultUrl) ELSE urls

\* this.blockHeights.set(url, height)
MapSet(map, url, height) ==
    [u \in (DOMAIN map) \cup {url} |-> IF u = url THEN height ELSE map[u]]

\* checkProviders, loop 1 over providers[1..n]: heights fetched, failures flagged
RECURSIVE FetchHeights(_, _, _, _, _)
FetchHeights(ps, heights, unhealthy, resp, n) ==
    IF n = 0 THEN [maxHeight |-> 0, blockHeights |-> heights, unhealthyProviders |-> unhealthy]
    ELSE LET m == FetchHeights(ps, heights, unhealthy, resp, n - 1)
             url == ps[n]
         IN IF resp[url] # NoAnswer
            THEN [maxHeight |-> IF resp[url] > m.maxHeight THEN resp[url] ELSE m.maxHeight,
                  blockHeights |-> MapSet(m.blockHeights, url, resp[url]),
                  unhealthyProviders |-> m.unhealthyProviders]
            ELSE [m EXCEPT !.unhealthyProviders = m.unhealthyProviders \cup {url}]

\* checkProviders, loop 2 over providers[1..n]: stale endpoints flagged, others recovered
RECURSIVE FlagStale(_, _, _, _, _)
FlagStale(ps, heights, unhealthy, maxHeight, n) ==
    IF n = 0 THEN unhealthy
    ELSE LET before == FlagStale(ps, heights, unhealthy, maxHeight, n - 1)
             url == ps[n]
         IN IF url \notin DOMAIN heights THEN before \cup {url}
            ELSE IF maxHeight - heights[url] > STALE_THRESHOLD THEN before \cup {url}
            ELSE before \ {url}

\* mutant of getClient: no fallback when every endpoint is flagged
getClientNoFallback(ps, unhealthy) == SelectSeq(ps, LAMBDA p : p \notin unhealthy)

\* manager.getClient(): the transports handed to fallback(), in order
getClient(ps, unhealthy) ==
    LET activeTransports == SelectSeq(ps, LAMBDA p : p \notin unhealthy)
    IN IF Len(activeTransports) > 0 THEN activeTransports ELSE <<ps[1]>>

\* module load: RPC_URLS parsed, new ReliableProviderManager(providerConfigs);
\* the first health check has not completed
InitRouting ==
    /\ transactions = EmptyBag
    /\ checkpoints = {}
    /\ lastCall = NoCall
    /\ scenario = NoScenario
    /\ conns = NoTransactions
    /\ DaemonOff
    /\ imu = ImuOff
    /\ HostOff
    /\ rpcUrls \in RpcUrlLists
    /\ providers = Constructor(rpcUrls)
    /\ unhealthyProviders = {}
    /\ blockHeights = [u \in {} |-> 0]
    /\ responses = [u \in {} |-> 0]
    /\ client = <<>>
    /\ rpcCall = NoRpcCall

\* checkProviders(), in which endpoint u answers resp[u]: the fields it leaves
checkProviders(ps, heights, unhealthy, resp) ==
    LET fetched == FetchHeights(ps, heights, unhealthy, resp, Len(ps))
    IN [blockHeights |-> fetched.blockHeights,
        unhealthyProviders |-> FlagStale(ps, fetched.blockHeights, fetched.unhealthyProviders,
                                         fetched.maxHeight, Len(ps))]

\* one run of checkProviders (the initial check, or a tick of the 10 s interval)
CheckProviders ==
    /\ \E resp \in [Urls(providers) -> Answers] :
        LET after == checkProviders(providers, blockHeights, unhealthyProviders, resp)
        IN /\ blockHeights' = after.blockHeights
           /\ unhealthyProviders' = after.unhealthyProviders
           /\ responses' = resp
    /\ UNCHANGED <<hostVars, storeVars, lastCall, scenario, conns, daemonVars, imu, rpcUrls,
                   providers, client, rpcCall>>

\* main(): const client = getClient(); const chainId = await client.getChainId().
\* main() runs in the turn that loads the module, before the first health check
\* has an answer
MainGetClient ==
    /\ client = <<>>
    /\ DOMAIN responses = {}
    /\ rpcCall = NoRpcCall
    /\ client' = getClient(providers, unhealthyProviders)
    /\ rpcCall' = [method |-> "getChainId", transports |-> client']
    /\ UNCHANGED <<hostVars, storeVars, lastCall, scenario, conns, daemonVars, imu, rpcUrls,
                   providers, unhealthyProviders, blockHeights, responses>>

\* main(): await client.getBlockNumber() on the client built at startup
CallGetBlockNumber ==
    /\ client # <<>>
    /\ rpcCall = NoRpcCall
    /\ rpcCall' = [method |-> "getBlockNumber", transports |-> client]
    /\ UNCHANGED <<hostVars, storeVars, lastCall, scenario, conns, daemonVars, imu, rpcUrls,
                   providers, unhealthyProviders, blockHeights, responses, client>>

\* fetchBlockHeader(blockNumber): const client = getClient(); await client.getBlock(...)
CallFetchBlockHeader ==
    /\ rpcCall = NoRpcCall
    /\ rpcCall' = [method |-> "fetchBlockHeader",
                   transports |-> getClient(providers, unhealthyProviders)]
    /\ UNCHANGED <<hostVars, storeVars, lastCall, scenario, conns, daemonVars, imu, rpcUrls,
                   providers, unhealthyProviders, blockHeights, responses, client>>

\* fetchBlockData(blockNumber): const client = getClient(); await client.getBlock(...)
CallFetchBlockData ==
    /\ rpcCall = NoRpcCall
    /\ rpcCall' = [method |-> "fetchBlockData",
                   transports |-> getClient(providers, unhealthyProviders)]
    /\ UNCHANGED <<hostVars, storeVars, lastCall, scenario, conns, daemonVars, imu, rpcUrls,
                   providers, unhealthyProviders, blockHeights, responses, client>>

\* the call in flight returns or throws
CallReturns ==
    /\ rpcCall # NoRpcCall
    /\ rpcCall' = NoRpcCall
    /\ UNCHANGED <<hostVars, storeVars, lastCall, scenario, conns, daemonVars, imu, rpcUrls,
                   providers, unhealthyProviders, blockHeights, responses, client>>

NextRouting ==
    \/ CheckProviders
    \/ MainGetClient
    \/ CallGetBlockNumber
    \/ CallFetchBlockHeader
    \/ CallFetchBlockData
    \/ CallReturns

SpecRouting == InitRouting /\ [][NextRouting]_vars

-----------------------------------------------------------------------------
(* Properties of the health monitor and of routing *)

\* the maximum height observed in the most recent health check
TickMaxHeight ==
    LET answered == {responses[u] : u \in {v \in DOMAIN responses : responses[v] # NoAnswer}}
    IN IF answered = {} THEN 0 ELSE CHOOSE h \in answered : \A g \in answered : g <= h

Healthy(ps, unhealthy) == SelectSeq(ps, LAMBDA p : p \notin unhealthy)

\* C11: after a completed health check an endpoint is marked unhealthy exactly
\* if it did not answer in that check or answered a height more than 3 blocks
\* below the maximum height answered in that check.
C11_HealthAfterTick ==
    DOMAIN responses # {} =>
        \A u \in Urls(providers) :
            u \in unhealthyProviders <=>
                (responses[u] = NoAnswer \/ TickMaxHeight - responses[u] > 3)

\* C12: a foreground call is handed the endpoints the health state at the time
\* of the call selects: when some endpoint is healthy, exactly the healthy
\* endpoints in configured order.
C12_RoutedByCurrentHealth ==
    [][(rpcCall' # NoRpcCall /\ rpcCall' # rpcCall
            /\ Healthy(providers, unhealthyProviders) # <<>>)
        => rpcCall'.transports = Healthy(providers, unhealthyProviders)]_vars

FirstAttempt == pc \in RpcAwaits

\* C14: the error of a transport call issued by the ingestion loop reaches the
\* loop's catch only after the call was retried with backoff, never straight
\* from the failure of its first attempt.
C14_ErrorOnlyAfterRetries ==
    [][(pc' = "catch" /\ pc # "catch") => ~FirstAttempt]_vars

-----------------------------------------------------------------------------
(* imu rollback <blockNumber> *)

\* command-line arguments: text that parseInt reads as a number, or as NaN
NaN == [isNaN |-> TRUE, n |-> 0]
Num(k) == [isNaN |-> FALSE, n |-> k]
CliArgs == {[text |-> "abc", digits |-> 0]}
               \cup {[text |-> "int", digits |-> k] : k \in -1..(MaxBlock + 1)}

\* parseInt(str, 10)
parseInt(arg) == IF arg.text = "int" THEN Num(arg.digits) ELSE NaN
isNaN(x) == x.isNaN

\* the guard with the fork point one block too high
RollForwardOffByOne(blockNumber, head) == blockNumber > head.number + 1

\* if (blockNumber > head.number): cannot roll forward
RollForward(blockNumber, head) == blockNumber > head.number

Exited(cmd, code) == [cmd EXCEPT !.pc = "exited", !.exitCode = code]

\* program.parse(process.argv) runs the action of `rollback`: the argument check
RollbackCommandStart(blockNumberStr) ==
    LET blockNumber == parseInt(blockNumberStr)
        cmd == [command |-> "rollback", pc |-> "getHeadBlock", blockNumber |-> blockNumber,
                headRead |-> FALSE, head |-> NoHead, exitCode |-> -1]
    IN /\ imu.pc \in {"off", "exited"}
       /\ imu' = IF isNaN(blockNumber) \/ blockNumber.n < 0 THEN Exited(cmd, 1) ELSE cmd
       /\ UNCHANGED <<hostVars, storeVars, lastCall, scenario, conns, daemonVars, rpcVars>>

\* const head = await getHeadBlock(), and the two checks on it;
\* `return` ends the action and the process ends with exit code 0
RollbackCommandGetHead ==
    LET head == getHeadBlock(checkpoints)
        cmd == [imu EXCEPT !.headRead = TRUE, !.head = head]
    IN /\ imu.command = "rollback"
       /\ imu.pc = "getHeadBlock"
       /\ imu' = IF ~head.present THEN Exited(cmd, 0)
                 ELSE IF RollForward(imu.blockNumber.n, head) THEN Exited(cmd, 1)
                 ELSE [cmd EXCEPT !.pc = "rollbackState"]
       /\ UNCHANGED <<hostVars, storeVars, lastCall, scenario, conns, daemonVars, rpcVars>>

\* await rollbackState(blockNumber); process.exit(0)
RollbackCommandRollback ==
    /\ imu.command = "rollback"
    /\ imu.pc = "rollbackState"
    /\ Completed(rollbackState(Store, imu.blockNumber.n), "rollbackState", "commit",
                 imu.blockNumber.n)
    /\ imu' = Exited(imu, 0)
    /\ UNCHANGED <<hostVars, scenario, conns, daemonVars, rpcVars>>

\* getHeadBlock or rollbackState throws: catch (error), process.exit(1)
RollbackCommandThrows ==
    /\ imu.command = "rollback"
    /\ imu.pc \in {"getHeadBlock", "rollbackState"}
    /\ LET after == ROLLBACK(Store, Store)
       IN /\ transactions' = after.transactions
          /\ checkpoints' = after.checkpoints
    /\ imu' = Exited(imu, 1)
    /\ UNCHANGED <<hostVars, lastCall, scenario, conns, daemonVars, rpcVars>>

\* the store as insertBatch, bulkInsert and rollbackState calls leave it, and
\* runs of the rollback command on it
NextRollbackCommand ==
    \/ \E data \in Batches : InsertBatch(data)
    \/ \E n \in ForkPoints : RollbackState(n)
    \/ \E arg \in CliArgs : RollbackCommandStart(arg)
    \/ RollbackCommandGetHead
    \/ RollbackCommandRollback
    \/ RollbackCommandThrows

SpecRollbackCommand == Init /\ [][NextRollbackCommand]_vars

\* C16: when the checkpoint read by the command is below the requested block,
\* the command ends with exit code 1 without calling rollbackState, and leaves
\* the rows and the checkpoint as they are.
C16_RollForwardRefused ==
    [][(imu.command = "rollback" /\ imu.pc = "getHeadBlock" /\ imu' # imu
            /\ Checkpoint.present /\ imu.blockNumber.n > Checkpoint.number)
        => (imu'.pc = "exited" /\ imu'.exitCode = 1 /\ storeVars' = storeVars)]_vars

\* the command has refused to roll a store with rows forward
C16_Witness ==
    /\ imu.command = "rollback"
    /\ imu.pc = "exited"
    /\ imu.exitCode = 1
    /\ imu.headRead
    /\ imu.head.present
    /\ imu.blockNumber.n > imu.head.number
    /\ Rows # {}
    /\ Checkpoint = imu.head

\* C23: a successful `imu rollback N` deletes only data after block N: the
\* rows of blocks up to and including N are as they were, the rows of higher
\* blocks are gone.
C23_RollsBackToBlock ==
    [][(imu.command = "rollback" /\ imu.pc = "rollbackState" /\ imu'.pc = "exited"
            /\ imu'.exitCode = 0)
        => transactions' = [r \in {q \in Rows : q.block_number <= imu.blockNumber.n}
                                |-> transactions[r]]]_vars

\* C17: when the command finds no checkpoint row it ends with exit code 1.
C17_NoCheckpointFails ==
    (imu.command = "rollback" /\ imu.pc = "exited" /\ imu.headRead /\ ~imu.head.present)
        => imu.exitCode = 1

-----------------------------------------------------------------------------
(* imu backfill --start <N> --end <M> [--batch-size <K>] *)

MAX_RETRIES == 5

\* --batch-size values: text parseInt reads as NaN, or as a number from 0 up
BatchSizeArgs == {[text |-> "abc", digits |-> 0]}
                     \cup {[text |-> "int", digits |-> k] : k \in 0..(MaxBatch + 1)}

\* the chains an endpoint may serve to a backfill: blocks 0..MaxBlock, each with
\* its transactions (--end may name a block past the head, which no fetch returns)
RECURSIVE ChainsOfLength(_)
ChainsOfLength(n) ==
    IF n = 0 THEN {<<>>}
    ELSE {Append(c, [number |-> n - 1, hash |-> HashOf(n - 1, 0),
                     parentHash |-> IF n = 1 THEN ZeroHash ELSE HashOf(n - 2, 0),
                     transactions |-> t]) :
            c \in ChainsOfLength(n - 1), t \in BlockTxChoices}

\* TransactionSchema, on the fields the records of the model carry:
\* blockNumber: z.number().int().positive()
TransactionSchema(tx) == tx.blockNumber > 0

\* a batch cut one block too long
BatchEndInclusive(currentBlock, batchSize, end) ==
    IF isNaN(batchSize) THEN end
    ELSE IF currentBlock + batchSize.n < end THEN currentBlock + batchSize.n
    ELSE end

\* const batchEnd = potentialBatchEnd < end ? potentialBatchEnd : end
\* (a comparison with NaN is false)
BatchEnd(currentBlock, batchSize, end) ==
    IF isNaN(batchSize) THEN end
    ELSE IF currentBlock + batchSize.n - 1 < end THEN currentBlock + batchSize.n - 1
    ELSE end

\* Promise.allSettled in place of Promise.all: a failed fetch does not reject
PromiseAllSettled(fetches) ==
    IF \E i \in DOMAIN fetches : fetches[i].state = "pending" THEN "pending"
    ELSE "fulfilled"

\* await Promise.all(promises)
PromiseAll(fetches) ==
    IF \E i \in DOMAIN fetches : fetches[i].state = "failed" THEN "rejected"
    ELSE IF \E i \in DOMAIN fetches : fetches[i].state = "pending" THEN "pending"
    ELSE "fulfilled"

\* results.flat(), in block order from block `from` on
RECURSIVE Flat(_, _, _)
Flat(fetches, from, to) ==
    IF from > to THEN <<>>
    ELSE fetches[from].result \o Flat(fetches, from + 1, to)

InitBackfill ==
    /\ transactions = EmptyBag
    /\ checkpoints = {}
    /\ lastCall = NoCall
    /\ scenario = NoScenario
    /\ conns = NoTransactions
    /\ chain \in ChainsOfLength(MaxBlock + 1)
    /\ forks = 0
    /\ settled = FALSE
    /\ pc = "off"
    /\ dbHead = NoHead
    /\ onChainBlockNumber = -1
    /\ targetBlockHeader = NoHeader
    /\ txs = <<>>
    /\ error = "none"
    /\ RpcOff
    /\ imu = ImuOff
    /\ HostOff

\* the action of `backfill`: the argument checks, then the first test of the loop
BackfillStart(startStr, endStr, batchSizeStr) ==
    LET start == parseInt(startStr)
        end == parseInt(endStr)
        batchSize == parseInt(batchSizeStr)
        cmd == [command |-> "backfill", pc |-> "loop", start |-> start, end |-> end,
                batchSize |-> batchSize, currentBlock |-> start.n, batchEnd |-> start.n - 1,
                fetches |-> <<>>, flatResults |-> <<>>, started |-> EmptyBag,
                exitCode |-> -1]
    IN /\ imu.pc = "off"
       /\ imu' = IF isNaN(start) \/ isNaN(end) \/ start.n < 0 \/ end.n < 0 THEN Exited(cmd, 1)
                 ELSE IF start.n > end.n THEN Exited(cmd, 1)
                 ELSE cmd
       /\ UNCHANGED <<hostVars, storeVars, lastCall, scenario, conns, daemonVars, rpcVars>>

\* while (currentBlock <= end): the batch is cut and its fetches are started
\* (imu.started counts the fetchWithRetry calls made per block);
\* after the loop process.exit(0)
BackfillLoop ==
    LET batchEnd == BatchEnd(imu.currentBlock, imu.batchSize, imu.end.n)
    IN /\ imu.command = "backfill"
       /\ imu.pc = "loop"
       /\ imu' = IF imu.currentBlock <= imu.end.n
                 THEN [imu EXCEPT !.pc = "fetching", !.batchEnd = batchEnd,
                                  !.flatResults = <<>>,
                                  !.started = imu.started
                                                  (+) SetToBag(imu.currentBlock..batchEnd),
                                  !.fetches = [i \in imu.currentBlock..batchEnd |->
                                                  [state |-> "pending",
                                                   retries |-> MAX_RETRIES,
                                                   result |-> <<>>]]]
                 ELSE Exited(imu, 0)
       /\ UNCHANGED <<hostVars, storeVars, lastCall, scenario, conns, daemonVars, rpcVars>>

\* fetchWithRetry(i): return await fetchBlockData(blockNum)
BackfillFetchReturns(i) ==
    /\ imu.command = "backfill"
    /\ imu.pc = "fetching"
    /\ i \in DOMAIN imu.fetches
    /\ imu.fetches[i].state = "pending"
    /\ HasBlock(i)
    /\ imu' = [imu EXCEPT !.fetches[i].state = "done", !.fetches[i].result = fetchBlockData(i)]
    /\ UNCHANGED <<hostVars, storeVars, lastCall, scenario, conns, daemonVars, rpcVars>>

\* fetchWithRetry(i): catch (err) with retries left: wait 1000 * (1 << attempt) ms,
\* then fetchWithRetry(blockNum, retries - 1)
BackfillFetchRetries(i) ==
    /\ imu.command = "backfill"
    /\ imu.pc = "fetching"
    /\ i \in DOMAIN imu.fetches
    /\ imu.fetches[i].state = "pending"
    /\ imu.fetches[i].retries # 0
    /\ imu' = [imu EXCEPT !.fetches[i].retries = imu.fetches[i].retries - 1]
    /\ UNCHANGED <<hostVars, storeVars, lastCall, scenario, conns, daemonVars, rpcVars>>

\* fetchWithRetry(i): catch (err) with if (retries === 0) throw err
BackfillFetchThrows(i) ==
    /\ imu.command = "backfill"
    /\ imu.pc = "fetching"
    /\ i \in DOMAIN imu.fetches
    /\ imu.fetches[i].state = "pending"
    /\ imu.fetches[i].retries = 0
    /\ imu' = [imu EXCEPT !.fetches[i].state = "failed"]
    /\ UNCHANGED <<hostVars, storeVars, lastCall, scenario, conns, daemonVars, rpcVars>>

\* const results = await Promise.all(promises); const flatResults = results.flat();
\* a rejection goes to catch (error): process.exit(1); an empty batch goes round the loop
BackfillAwaitAll ==
    LET settledAs == PromiseAll(imu.fetches)
        flatResults == Flat(imu.fetches, imu.currentBlock, imu.batchEnd)
    IN /\ imu.command = "backfill"
       /\ imu.pc = "fetching"
       /\ settledAs # "pending"
       /\ imu' = IF settledAs = "rejected" THEN Exited(imu, 1)
                 ELSE IF Len(flatResults) > 0
                 THEN [imu EXCEPT !.pc = "bulkInsert", !.flatResults = flatResults]
                 ELSE [imu EXCEPT !.pc = "loop", !.currentBlock = imu.batchEnd + 1]
       /\ UNCHANGED <<hostVars, storeVars, lastCall, scenario, conns, daemonVars, rpcVars>>

\* await bulkInsert(flatResults); currentBlock = batchEnd + 1
BackfillBulkInsert ==
    /\ imu.command = "backfill"
    /\ imu.pc = "bulkInsert"
    /\ Completed(bulkInsert(Store, imu.flatResults), "bulkInsert", "commit", 0)
    /\ imu' = [imu EXCEPT !.pc = "loop", !.currentBlock = imu.batchEnd + 1]
    /\ UNCHANGED <<hostVars, scenario, conns, daemonVars, rpcVars>>

\* bulkInsert throws after its ROLLBACK: catch (error), process.exit(1)
BackfillBulkInsertThrows ==
    /\ imu.command = "backfill"
    /\ imu.pc = "bulkInsert"
    /\ Completed(ROLLBACK(Store, bulkInsertTxn(Store, imu.flatResults)), "bulkInsert", "throw", 0)
    /\ imu' = Exited(imu, 1)
    /\ UNCHANGED <<hostVars, scenario, conns, daemonVars, rpcVars>>

NextBackfill ==
    \/ \E startStr \in CliArgs, endStr \in CliArgs, batchSizeStr \in BatchSizeArgs :
            BackfillStart(startStr, endStr, batchSizeStr)
    \/ BackfillLoop
    \/ \E i \in 0..(MaxBlock + 1) : BackfillFetchReturns(i)
    \/ \E i \in 0..(MaxBlock + 1) : BackfillFetchRetries(i)
    \/ \E i \in 0..(MaxBlock + 1) : BackfillFetchThrows(i)
    \/ BackfillAwaitAll
    \/ BackfillBulkInsert
    \/ BackfillBulkInsertThrows

SpecBackfill == InitBackfill /\ [][NextBackfill]_vars

\* the event loop runs the command's next step
FairSpecBackfill == SpecBackfill /\ WF_vars(NextBackfill)

\* the rows of the transactions of blocks from..to of the chain
BlockRows(from, to) ==
    UNION {{ToRow(fetchBlockData(b)[i]) : i \in 1..Len(fetchBlockData(b))} : b \in from..to}

FetchFailed == \E i \in DOMAIN imu.fetches : imu.fetches[i].state = "failed"

\* C15: every row persisted by the backfill satisfies TransactionSchema.
C15_RowsSatisfySchema ==
    \A r \in Rows :
        TransactionSchema([blockNumber |-> r.block_number, blockHash |-> r.block_hash,
                           transactionHash |-> r.tx_hash])

\* C18: a backfill run in which the fetch of a block failed after its retries
\* has ended with exit code 1, and on the store it started from empty holds
\* exactly the rows of the batches before the failed one: no row of the failed
\* batch or of a later one, and every row of the earlier ones.
C18_BackfillAbort ==
    (imu.command = "backfill" /\ imu.pc = "exited" /\ FetchFailed)
        => /\ imu.exitCode = 1
           /\ Rows = BlockRows(imu.start.n, imu.currentBlock - 1)

\* a run aborted in a later batch after a first batch with rows was committed
C18_Witness ==
    /\ imu.command = "backfill"
    /\ imu.pc = "exited"
    /\ FetchFailed
    /\ imu.currentBlock > imu.start.n
    /\ Rows # {}
    /\ \E b \in imu.currentBlock..imu.batchEnd : HasBlock(b) /\ Len(fetchBlockData(b)) > 0

Min(a, b) == IF a < b THEN a ELSE b

\* the rows of the records flatResults holds
FlatRows == {ToRow(imu.flatResults[k]) : k \in 1..Len(imu.flatResults)}

\* C26: in a backfill run with batch size K >= 1 that has not failed, started
\* from an empty store: fetchWithRetry has been called exactly once for every
\* block from start to the end of the current batch and for no other block;
\* the batch in flight is [currentBlock, min(currentBlock + K - 1, end)]; it is
\* committed only when every one of its fetches has returned, with exactly the
\* records of its blocks; its fetches start only when the store holds the rows
\* of all earlier batches; and the run ends with all of [start, end] committed.
C26_BackfillCoverage ==
    (/\ imu.command = "backfill"
     /\ ~isNaN(imu.batchSize)
     /\ imu.batchSize.n >= 1
     /\ ~(imu.pc = "exited" /\ imu.exitCode = 1))
    => /\ \A i \in -1..(MaxBlock + 2) :
            CopiesIn(i, imu.started) = IF i \in imu.start.n..imu.batchEnd THEN 1 ELSE 0
       /\ imu.pc \in {"fetching", "bulkInsert"} =>
            /\ imu.batchEnd = Min(imu.currentBlock + imu.batchSize.n - 1, imu.end.n)
            /\ DOMAIN imu.fetches = imu.currentBlock..imu.batchEnd
            /\ Rows = BlockRows(imu.start.n, imu.currentBlock - 1)
       /\ imu.pc = "bulkInsert" =>
            /\ \A i \in DOMAIN imu.fetches : imu.fetches[i].state = "done"
            /\ FlatRows = BlockRows(imu.currentBlock, imu.batchEnd)
       /\ imu.pc = "loop" =>
            /\ imu.currentBlock = imu.batchEnd + 1
            /\ Rows = BlockRows(imu.start.n, imu.batchEnd)
       /\ imu.pc = "exited" =>
            /\ imu.batchEnd = imu.end.n
            /\ Rows = BlockRows(imu.start.n, imu.end.n)

\* a run of two batches or more has ended with success and has committed rows
C26_Witness ==
    /\ imu.command = "backfill"
    /\ imu.pc = "exited"
    /\ imu.exitCode = 0
    /\ ~isNaN(imu.batchSize)
    /\ imu.batchSize.n >= 1
    /\ imu.end.n - imu.start.n >= imu.batchSize.n
    /\ Rows # {}
    /\ \A i \in imu.start.n..imu.end.n : CopiesIn(i, imu.started) = 1

\* C19: a backfill run ends.
C19_BackfillTerminates == <>(imu.pc = "exited")

-----------------------------------------------------------------------------
(* TransactionSchema (packages/schemas): safeParse of one record *)

MaxAmountLen == 3

\* the characters amount strings are built from; hexadecimal literals and
\* "Infinity", which Number() also reads, are not built from them
AmountChars == {"0", "1", "-", "+", ".", "e", " "}
DecimalDigit == {"0", "1"}
AmountStrings == SeqsUpTo(AmountChars, MaxAmountLen)

\* index of the first ch in s, 0 if there is none
IndexOf(s, ch) ==
    IF \E i \in 1..Len(s) : s[i] = ch
    THEN CHOOSE i \in 1..Len(s) : s[i] = ch /\ \A j \in 1..(i - 1) : s[j] # ch
    ELSE 0

\* StrWhiteSpace is stripped from both ends
Trim(s) ==
    IF \A i \in 1..Len(s) : s[i] = " " THEN <<>>
    ELSE LET a == CHOOSE i \in 1..Len(s) : s[i] # " " /\ \A j \in 1..(i - 1) : s[j] = " "
             b == CHOOSE i \in 1..Len(s) : s[i] # " " /\ \A j \in (i + 1)..Len(s) : s[j] = " "
         IN SubSeq(s, a, b)

AllDigits(s) == \A i \in 1..Len(s) : s[i] \in DecimalDigit
\* DecimalDigits: one digit or more
DecimalDigits(s) == Len(s) > 0 /\ AllDigits(s)

\* SignedInteger of an ExponentPart
SignedInteger(s) ==
    IF Len(s) > 0 /\ s[1] \in {"+", "-"} THEN DecimalDigits(Tail(s)) ELSE DecimalDigits(s)

\* the mantissa of an unsigned literal, before its ExponentPart
Mantissa(s) == IF IndexOf(s, "e") = 0 THEN s ELSE SubSeq(s, 1, IndexOf(s, "e") - 1)

\* StrUnsignedDecimalLiteral: digits [. [digits]] [e exp] or . digits [e exp]
StrUnsignedDecimalLiteral(s) ==
    LET e == IndexOf(s, "e")
        mant == Mantissa(s)
        d == IndexOf(mant, ".")
    IN /\ e = 0 \/ SignedInteger(SubSeq(s, e + 1, Len(s)))
       /\ IF d = 0 THEN DecimalDigits(mant)
          ELSE /\ AllDigits(SubSeq(mant, 1, d - 1))
               /\ AllDigits(SubSeq(mant, d + 1, Len(mant)))
               /\ Len(mant) > 1

\* Number(s) of JavaScript as far as the refinement reads it: NaN or the sign
\* of the value (-0 and 0 are both sign 0; no string this short underflows)
Number(s) ==
    LET t == Trim(s)
        signed == Len(t) > 0 /\ t[1] \in {"+", "-"}
        u == IF signed THEN Tail(t) ELSE t
        nonzero == \E i \in 1..Len(Mantissa(u)) : Mantissa(u)[i] = "1"
    IN IF t = <<>> THEN [nan |-> FALSE, sign |-> 0]
       ELSE IF ~StrUnsignedDecimalLiteral(u) THEN [nan |-> TRUE, sign |-> 0]
       ELSE [nan |-> FALSE,
             sign |-> IF ~nonzero THEN 0 ELSE IF signed /\ t[1] = "-" THEN -1 ELSE 1]

\* amount: z.string().refine(s => !isNaN(Number(s)) && Number(s) >= 0)
amountRefine(s) == ~Number(s).nan /\ Number(s).sign >= 0

\* the records handed to safeParse: the two fields whose checks depend on a value
ParseInputs == [blockNumber : -1..MaxBlock, amount : AmountStrings]

\* TransactionSchema.safeParse(input): the paths of the issues it reports
safeParse(input) ==
    LET issues == (IF TransactionSchema(input) THEN {} ELSE {"blockNumber"})
                  \cup (IF amountRefine(input.amount) THEN {} ELSE {"amount"})
    IN [success |-> issues = {}, issues |-> issues]

InitSchema ==
    /\ transactions = EmptyBag
    /\ checkpoints = {}
    /\ lastCall = NoCall
    /\ scenario = NoScenario
    /\ conns = NoTransactions
    /\ DaemonOff
    /\ RpcOff
    /\ imu = ImuOff
    /\ monitor = NoTick
    /\ shutdown = NoProcess
    /\ parsed \in {[pc |-> "input", input |-> input] : input \in ParseInputs}

SafeParse ==
    /\ parsed.pc = "input"
    /\ parsed' = [pc |-> "done", input |-> parsed.input, result |-> safeParse(parsed.input)]
    /\ UNCHANGED <<storeVars, lastCall, scenario, conns, daemonVars, rpcVars, imu, monitor,
                   shutdown>>

NextSchema == SafeParse

SpecSchema == InitSchema /\ [][NextSchema]_vars

\* the decimal representation of a non-negative integer: digits only
IsDecimalNat(s) == DecimalDigits(s)

\* C21: the schema accepts an amount string if and only if it is the decimal
\* representation of a non-negative integer, with no sign, no fractional part
\* and no exponent.
C21_AmountIsDecimalNat ==
    parsed.pc = "done" =>
        ("amount" \notin parsed.result.issues <=> IsDecimalNat(parsed.input.amount))

\* C22: a record with blockNumber 0 whose other fields are well-formed is
\* accepted by validation.
C22_GenesisAccepted ==
    (parsed.pc = "done" /\ parsed.input.blockNumber = 0 /\ IsDecimalNat(parsed.input.amount))
        => parsed.result.success

-----------------------------------------------------------------------------
(* fetchWithRetry of the backfill, one call, with the health monitor running *)

\* 1 << n of JavaScript: the shift count is taken modulo 32 and the result is a
\* signed 32-bit integer, so 1 << 31 is -2^31
OneShiftLeft(n) == IF n % 32 = 31 THEN -2147483647 - 1 ELSE 2^(n % 32)

\* a wait that grows by one second per attempt
BackoffDelayLinear(retries) == 1000 * (MAX_RETRIES - retries + 1)

\* const attempt = MAX_RETRIES - retries; const delay = 1000 * (1 << attempt)
BackoffDelay(retries) == 1000 * OneShiftLeft(MAX_RETRIES - retries)

\* fetchWithRetry(blockNum): retries = MAX_RETRIES
FetchWithRetryStart ==
    /\ imu = ImuOff
    /\ imu' = [command |-> "fetchWithRetry", pc |-> "try", retries |-> MAX_RETRIES,
               attempts |-> 0, delays |-> <<>>]
    /\ UNCHANGED <<hostVars, storeVars, lastCall, scenario, conns, daemonVars, rpcVars>>

\* try { return await fetchBlockData(blockNum): const client = getClient();
\* await client.getBlock(...)
FetchWithRetryTry ==
    /\ imu.command = "fetchWithRetry"
    /\ imu.pc = "try"
    /\ rpcCall = NoRpcCall
    /\ rpcCall' = [method |-> "fetchBlockData",
                   transports |-> getClient(providers, unhealthyProviders)]
    /\ imu' = [imu EXCEPT !.pc = "await", !.attempts = imu.attempts + 1]
    /\ UNCHANGED <<hostVars, storeVars, lastCall, scenario, conns, daemonVars, rpcUrls,
                   providers, unhealthyProviders, blockHeights, responses, client>>

\* fetchBlockData returns the block's records
FetchWithRetryReturns ==
    /\ imu.command = "fetchWithRetry"
    /\ imu.pc = "await"
    /\ rpcCall' = NoRpcCall
    /\ imu' = [imu EXCEPT !.pc = "returned"]
    /\ UNCHANGED <<hostVars, storeVars, lastCall, scenario, conns, daemonVars, rpcUrls,
                   providers, unhealthyProviders, blockHeights, responses, client>>

\* catch (err): if (retries === 0) throw err; otherwise the timer of `delay` ms is set
FetchWithRetryCatch ==
    /\ imu.command = "fetchWithRetry"
    /\ imu.pc = "await"
    /\ rpcCall' = NoRpcCall
    /\ imu' = IF imu.retries = 0 THEN [imu EXCEPT !.pc = "thrown"]
              ELSE [imu EXCEPT !.pc = "backoff",
                               !.delays = Append(imu.delays, BackoffDelay(imu.retries))]
    /\ UNCHANGED <<hostVars, storeVars, lastCall, scenario, conns, daemonVars, rpcUrls,
                   providers, unhealthyProviders, blockHeights, responses, client>>

\* the timer fires: return fetchWithRetry(blockNum, retries - 1)
FetchWithRetryAgain ==
    /\ imu.command = "fetchWithRetry"
    /\ imu.pc = "backoff"
    /\ imu' = [imu EXCEPT !.pc = "try", !.retries = imu.retries - 1]
    /\ UNCHANGED <<hostVars, storeVars, lastCall, scenario, conns, daemonVars, rpcVars>>

NextFetchWithRetry ==
    \/ CheckProviders
    \/ FetchWithRetryStart
    \/ FetchWithRetryTry
    \/ FetchWithRetryReturns
    \/ FetchWithRetryCatch
    \/ FetchWithRetryAgain

SpecFetchWithRetry == InitRouting /\ [][NextFetchWithRetry]_vars

\* what a step of fetchWithRetry keeps to when it may make maxAttempts attempts:
\* the count of attempts, the waits 1 s, 2 s, 4 s, ... before the retries, a
\* client built from the endpoints not flagged at the time of each attempt
\* (the first configured one when all are flagged), and the error surfaced only
\* by the failure of the last attempt
RetryBudget(maxAttempts) ==
    imu'.command = "fetchWithRetry" =>
        /\ imu'.attempts <= maxAttempts
        /\ \A k \in 1..Len(imu'.delays) : imu'.delays[k] = 1000 * 2^(k - 1)
        /\ Len(imu'.delays) <= imu'.attempts
        /\ (imu'.pc = "await" /\ imu # imu') =>
              /\ Len(imu'.delays) = imu'.attempts - 1
              /\ rpcCall'.transports =
                    IF Healthy(providers, unhealthyProviders) # <<>>
                    THEN Healthy(providers, unhealthyProviders)
                    ELSE <<providers[1]>>
        /\ imu'.pc = "thrown" => imu'.attempts = maxAttempts

\* C25 as stated: at most 5 attempts for a block.
C25_FiveAttempts == [][RetryBudget(5)]_vars

\* C25: fetchWithRetry makes at most MAX_RETRIES + 1 = 6 attempts (the first
\* and 5 retries), waits 1 s before the first retry and doubles the wait before
\* each following one, asks getClient() for a client on every attempt, and
\* throws only when the last attempt has failed.
C25_RetryBudget == [][RetryBudget(MAX_RETRIES + 1)]_vars

\* the sixth attempt has failed after waits of 1, 2, 4, 8 and 16 seconds, on a
\* manager that has flagged an endpoint
C25_Witness ==
    /\ imu.command = "fetchWithRetry"
    /\ imu.pc = "thrown"
    /\ imu.attempts = MAX_RETRIES + 1
    /\ imu.delays = <<1000, 2000, 4000, 8000, 16000>>
    /\ unhealthyProviders # {}

-----------------------------------------------------------------------------
(* The pool connection of insertBatch, bulkInsert and rollbackState: connect,
   try, catch, finally.  The statements of the transaction are the steps of
   SpecTxn; here a call is followed along its exit paths only. *)

\* a pooled client that no call holds
Idle == [pc |-> "idle", op |-> "none", exit |-> "none", out |-> 0, releases |-> 0]

\* the ways control leaves try { ... } catch (error) { ROLLBACK; throw error }:
\* after COMMIT, after a ROLLBACK that succeeded, after a ROLLBACK that threw
TryExits == {"commit", "rollback", "rollbackThrows"}

\* release() written after the catch block instead of in finally
ReleasedAfterCatch(exit) == exit = "commit"

\* finally { client.release() } runs however the try statement was left
ReleasedInFinally(exit) == exit \in TryExits

InitPool ==
    /\ transactions = EmptyBag
    /\ checkpoints = {}
    /\ lastCall = NoCall
    /\ scenario = NoScenario
    /\ conns = [c \in Conns |-> Idle]
    /\ DaemonOff
    /\ RpcOff
    /\ imu = ImuOff
    /\ HostOff

\* insertBatch / bulkInsert: if (data.length === 0) return
PoolReturnsEmpty(op) ==
    /\ op \in {"insertBatch", "bulkInsert"}
    /\ lastCall' = [op |-> op, outcome |-> "return", connected |-> FALSE, checkouts |-> 0,
                    releases |-> 0, exit |-> "none"]
    /\ UNCHANGED <<hostVars, rpcVars, imu, storeVars, scenario, conns, daemonVars>>

\* const client = await pool.connect() rejects: the call throws before its try
PoolConnectThrows(op) ==
    /\ lastCall' = [op |-> op, outcome |-> "throw", connected |-> FALSE, checkouts |-> 0,
                    releases |-> 0, exit |-> "none"]
    /\ UNCHANGED <<hostVars, rpcVars, imu, storeVars, scenario, conns, daemonVars>>

\* const client = await pool.connect(): the pool hands out a client nobody holds
PoolConnect(c, op) ==
    /\ conns[c].pc = "idle"
    /\ conns[c].out = 0
    /\ conns' = [conns EXCEPT ![c] = [pc |-> "try", op |-> op, exit |-> "none", out |-> 1,
                                      releases |-> 0]]
    /\ UNCHANGED <<hostVars, rpcVars, imu, storeVars, lastCall, scenario, daemonVars>>

\* BEGIN, the statements and COMMIT have succeeded
PoolCommit(c) ==
    /\ conns[c].pc = "try"
    /\ conns' = [conns EXCEPT ![c].pc = "finally", ![c].exit = "commit"]
    /\ UNCHANGED <<hostVars, rpcVars, imu, storeVars, lastCall, scenario, daemonVars>>

\* BEGIN, a statement or COMMIT throws
PoolThrows(c) ==
    /\ conns[c].pc = "try"
    /\ conns' = [conns EXCEPT ![c].pc = "catch"]
    /\ UNCHANGED <<hostVars, rpcVars, imu, storeVars, lastCall, scenario, daemonVars>>

\* catch (error): await client.query("ROLLBACK") succeeds; throw error
PoolRollback(c) ==
    /\ conns[c].pc = "catch"
    /\ conns' = [conns EXCEPT ![c].pc = "finally", ![c].exit = "rollback"]
    /\ UNCHANGED <<hostVars, rpcVars, imu, storeVars, lastCall, scenario, daemonVars>>

\* catch (error): await client.query("ROLLBACK") itself throws
PoolRollbackThrows(c) ==
    /\ conns[c].pc = "catch"
    /\ conns' = [conns EXCEPT ![c].pc = "finally", ![c].exit = "rollbackThrows"]
    /\ UNCHANGED <<hostVars, rpcVars, imu, storeVars, lastCall, scenario, daemonVars>>

\* finally { client.release() }, and the call returns or throws to its caller
PoolFinally(c) ==
    LET released == IF ReleasedInFinally(conns[c].exit) THEN 1 ELSE 0
    IN /\ conns[c].pc = "finally"
       /\ lastCall' = [op |-> conns[c].op,
                       outcome |-> IF conns[c].exit = "commit" THEN "return" ELSE "throw",
                       connected |-> TRUE, checkouts |-> 1, releases |-> released,
                       exit |-> conns[c].exit]
       /\ conns' = [conns EXCEPT ![c] = [Idle EXCEPT !.out = conns[c].out - released]]
       /\ UNCHANGED <<hostVars, rpcVars, imu, storeVars, scenario, daemonVars>>

NextPool ==
    \/ \E op \in CallOps : PoolReturnsEmpty(op)
    \/ \E op \in CallOps : PoolConnectThrows(op)
    \/ \E c \in Conns, op \in CallOps : PoolConnect(c, op)
    \/ \E c \in Conns : PoolCommit(c)
    \/ \E c \in Conns : PoolThrows(c)
    \/ \E c \in Conns : PoolRollback(c)
    \/ \E c \in Conns : PoolRollbackThrows(c)
    \/ \E c \in Conns : PoolFinally(c)

SpecPool == InitPool /\ [][NextPool]_vars

\* the clients checked out of the pool and not released
CheckedOut == {c \in Conns : conns[c].out > 0}
\* no call is running
NoCallRunning == \A c \in Conns : conns[c].pc = "idle"

\* C27 as stated: every completed call has checked out exactly one connection
\* and released it exactly once.
C27_OneConnectionPerCall ==
    /\ lastCall.op # "none" => (lastCall.checkouts = 1 /\ lastCall.releases = 1)
    /\ NoCallRunning => CheckedOut = {}

\* C27: a call that obtained a connection has checked out exactly one and has
\* released it exactly once, whether it left by COMMIT, by a statement failure
\* followed by ROLLBACK, or by a failure of the ROLLBACK itself; a call that
\* returned on an empty batch, or whose connect was rejected, has checked out
\* none; a client is held exactly while a call runs on it, so that no client
\* is checked out when no call is running.
C27_ConnectionDiscipline ==
    /\ lastCall.op # "none" =>
        /\ lastCall.checkouts = (IF lastCall.connected THEN 1 ELSE 0)
        /\ lastCall.releases = lastCall.checkouts
    /\ \A c \in Conns : conns[c].out = (IF conns[c].pc = "idle" THEN 0 ELSE 1)
    /\ NoCallRunning => CheckedOut = {}

\* a call whose ROLLBACK threw has completed and no client is checked out
C27_Witness ==
    /\ lastCall.op = "insertBatch"
    /\ lastCall.exit = "rollbackThrows"
    /\ lastCall.connected
    /\ lastCall.releases = 1
    /\ NoCallRunning
    /\ CheckedOut = {}

-----------------------------------------------------------------------------
(* checkProviders await by await, with foreground calls between its awaits *)

\* the constructor has called monitorHealth(): the initial check has sent its
\* first getBlockNumber(); completed is the unhealthy set the last finished
\* check left (the initial, empty set before the first one finishes)
InitMonitor ==
    /\ transactions = EmptyBag
    /\ checkpoints = {}
    /\ lastCall = NoCall
    /\ scenario = NoScenario
    /\ conns = NoTransactions
    /\ DaemonOff
    /\ imu = ImuOff
    /\ parsed = NotParsed
    /\ shutdown = NoProcess
    /\ rpcUrls \in RpcUrlLists
    /\ providers = Constructor(rpcUrls)
    /\ unhealthyProviders = {}
    /\ blockHeights = [u \in {} |-> 0]
    /\ responses = [u \in {} |-> 0]
    /\ client = <<>>
    /\ rpcCall = NoRpcCall
    /\ monitor = [pc |-> "probe", n |-> 1, maxHeight |-> 0, completed |-> {}]

\* the interval timer fires: let maxHeight = 0, the first getBlockNumber() is sent
TickStart ==
    /\ monitor.pc = "idle"
    /\ monitor' = [monitor EXCEPT !.pc = "probe", !.n = 1, !.maxHeight = 0]
    /\ UNCHANGED <<storeVars, lastCall, scenario, conns, daemonVars, imu, parsed, shutdown,
                   rpcVars>>

\* loop 1: the getBlockNumber() sent to providers[n] answers or throws; the next
\* one is sent, or after the last one loop 2 runs to its end without an await
TickProbeAnswers ==
    /\ monitor.pc = "probe"
    /\ \E answer \in Answers :
        LET url == providers[monitor.n]
            heights == IF answer # NoAnswer THEN MapSet(blockHeights, url, answer)
                       ELSE blockHeights
            unhealthy == IF answer # NoAnswer THEN unhealthyProviders
                         ELSE unhealthyProviders \cup {url}
            maxHeight == IF answer # NoAnswer /\ answer > monitor.maxHeight THEN answer
                         ELSE monitor.maxHeight
            flagged == FlagStale(providers, heights, unhealthy, maxHeight, Len(providers))
        IN /\ responses' = MapSet(responses, url, answer)
           /\ blockHeights' = heights
           /\ IF monitor.n < Len(providers)
              THEN /\ unhealthyProviders' = unhealthy
                   /\ monitor' = [monitor EXCEPT !.n = monitor.n + 1, !.maxHeight = maxHeight]
              ELSE /\ unhealthyProviders' = flagged
                   /\ monitor' = [monitor EXCEPT !.pc = "idle", !.maxHeight = maxHeight,
                                                 !.completed = flagged]
    /\ UNCHANGED <<storeVars, lastCall, scenario, conns, daemonVars, imu, parsed, shutdown,
                   rpcUrls, providers, client, rpcCall>>

NextMonitor ==
    \/ TickStart
    \/ TickProbeAnswers
    \/ CallFetchBlockHeader
    \/ CallFetchBlockData
    \/ CallReturns

SpecMonitor == InitMonitor /\ [][NextMonitor]_vars

\* C29: the unhealthy set and the heights change only in a step of the health
\* check, and the client of every foreground call is built from the unhealthy
\* set that the last finished health check left (the initial set before the
\* first one finishes), never from a set a check in progress has half written.
C29_ConsistentSnapshot ==
    [][/\ (unhealthyProviders' # unhealthyProviders \/ blockHeights' # blockHeights) =>
            monitor.pc = "probe"
       /\ (rpcCall = NoRpcCall /\ rpcCall' # NoRpcCall) =>
            rpcCall'.transports = getClient(providers, monitor.completed)
      ]_vars

-----------------------------------------------------------------------------
(* The daemon process and the signals SIGINT / SIGTERM.  No handler is
   installed for either, so the default disposition applies: the process is
   terminated at whatever await main() stands at. *)

Signals == {"SIGINT", "SIGTERM"}

\* the process is running main(); pool.end() has not been called and the
\* interval of the health monitor has not been cleared
Running == [pc |-> "running", signal |-> "none", at |-> "none", poolEnded |-> FALSE,
            monitorCleared |-> FALSE]

InitShutdown ==
    /\ transactions = EmptyBag
    /\ checkpoints = {}
    /\ lastCall = NoCall
    /\ scenario = NoScenario
    /\ conns = NoTransactions
    /\ chain = <<Genesis>>
    /\ forks = 0
    /\ settled = FALSE
    /\ pc = "getHeadBlock"
    /\ dbHead = NoHead
    /\ onChainBlockNumber = -1
    /\ targetBlockHeader = NoHeader
    /\ txs = <<>>
    /\ error = "none"
    /\ RpcOff
    /\ imu = ImuOff
    /\ parsed = NotParsed
    /\ monitor = NoTick
    /\ shutdown = Running

\* the signal arrives: the process ends where it stands (at records the await);
\* the server aborts the transaction of a connection that is closed under it,
\* so no part of a call in flight is committed
Signal(sig) ==
    /\ shutdown.pc = "running"
    /\ shutdown' = [shutdown EXCEPT !.pc = "exited", !.signal = sig, !.at = pc]
    /\ pc' = "off"
    /\ UNCHANGED <<storeVars, lastCall, scenario, conns, chainVars, localVars, rpcVars, imu,
                   parsed, monitor>>

NextShutdown ==
    \/ \E sig \in Signals : Signal(sig)
    \/ \E t \in BlockTxChoices : NewBlock(t)
    \/ \E k \in 1..MaxHeight, t \in BlockTxChoices : Reorg(k, t)
    \/ Settle
    \/ DaemonGetHeadBlock
    \/ DaemonGetBlockNumber
    \/ DaemonColdFetchBlockData
    \/ DaemonColdInsertBatch
    \/ DaemonColdFetchBlockHeader
    \/ DaemonColdSaveCheckpoint
    \/ DaemonSleep
    \/ DaemonFetchBlockHeader
    \/ DaemonBlockNotFound
    \/ DaemonRollbackState
    \/ DaemonFetchBlockData
    \/ DaemonInsertBatch
    \/ DaemonSaveCheckpoint
    \/ DaemonCatch

SpecShutdown == InitShutdown /\ [][NextShutdown]_vars

\* C30: a process that has ended on a shutdown signal was not in a persistence
\* call when it ended (the call in flight was let run to its COMMIT or
\* ROLLBACK first), had cleared the interval of the health monitor and had
\* drained the pool.
C30_GracefulShutdown ==
    (shutdown.pc = "exited" /\ shutdown.signal # "none") =>
        /\ shutdown.at \notin DbAwaits \cup {"rollbackState"}
        /\ shutdown.monitorCleared
        /\ shutdown.poolEnded

-----------------------------------------------------------------------------
(* Frame and lifecycle properties of the two tables *)

\* a call of insertBatch or bulkInsert has just committed
Committed(op) == lastCall'.op = op /\ lastCall'.outcome = "commit"

\* C31: the checkpoints table never holds more than one row and its id is
\* 'chain_head'; a commit of insertBatch or bulkInsert on a table without the
\* row creates it; no call, rollbackState included, removes it.
C31_SingleCheckpointRow ==
    /\ [](Cardinality(checkpoints) <= 1 /\ \A c \in checkpoints : c.id = CHAIN_HEAD)
    /\ [][/\ checkpoints # {} => checkpoints' # {}
          /\ (checkpoints = {} /\ (Committed("insertBatch") \/ Committed("bulkInsert")))
                => checkpoints' # {}
         ]_vars

\* rollbackState has removed every row and the checkpoint row is still there
C31_Witness ==
    /\ lastCall.op = "rollbackState"
    /\ lastCall.outcome = "commit"
    /\ Rows = {}
    /\ Cardinality(checkpoints) = 1

\* C32: a call of insertBatch or bulkInsert leaves every row that existed
\* before it in the table, with its fields as they were, whether it commits or
\* throws; a step that removes a row is a commit of rollbackState.
C32_RowLifecycleFrame ==
    [][/\ lastCall'.op \in {"insertBatch", "bulkInsert"} => transactions \sqsubseteq transactions'
       /\ ~(transactions \sqsubseteq transactions') =>
            (lastCall'.op = "rollbackState" /\ lastCall'.outcome = "commit")
      ]_vars

\* a batch repeating the key of a stored row under another block hash has
\* committed and the stored row is as it was
C32_Witness ==
    /\ lastCall.op = "insertBatch"
    /\ lastCall.outcome = "commit"
    /\ Rows = {[tx_hash |-> "t1", block_number |-> 1, block_hash |-> "hA", to_address |-> NULL]}
    /\ Checkpoint.present
    /\ Checkpoint.hash = "hB"

\* the rows of a table below block n, with their multiplicities
RowsBelow(tbl, n) == [r \in {q \in BagToSet(tbl) : q.block_number < n} |-> tbl[r]]

-----------------------------------------------------------------------------
(* insertBatch and bulkInsert over the same store and the same batch *)

\* block hashes TransactionSchema accepts (a string with the prefix, written h,
\* and the right length): two of hex digits, one holding a backslash, one a tab
CopyHashes == BlockHashes \cup {"h\\A", "h\tA"}

\* tx.to where the property is present: null (<<>>) or a string
ToValues == {<<>>, <<"hT">>}

\* validated records with to absent, and with to present
CopyRecords ==
    [transactionHash : TxHashes, blockNumber : BlockNumbers, blockHash : CopyHashes]
        \cup [transactionHash : TxHashes, blockNumber : BlockNumbers, blockHash : CopyHashes,
              to : ToValues]

CopyBatches == SeqsUpTo(CopyRecords, MaxBatch)

InitCopy ==
    /\ transactions = EmptyBag
    /\ checkpoints = {}
    /\ lastCall = NoCall
    /\ scenario = [phase |-> "build"]
    /\ conns = NoTransactions
    /\ DaemonOff
    /\ RpcOff
    /\ imu = ImuOff
    /\ HostOff

\* the store the two calls start from
CopyBuild(data) ==
    /\ scenario.phase = "build"
    /\ Completed(insertBatch(Store, data), "insertBatch", Outcome(data), Len(data))
    /\ scenario' = [phase |-> "built"]
    /\ UNCHANGED <<hostVars, rpcVars, imu, conns, daemonVars>>

\* insertBatch(data) on the store
CopyInsertBatch(data) ==
    /\ scenario.phase \in {"build", "built"}
    /\ Completed(insertBatch(Store, data), "insertBatch", Outcome(data), Len(data))
    /\ scenario' = [phase |-> "insertBatch", data |-> data, before |-> Store]
    /\ UNCHANGED <<hostVars, rpcVars, imu, conns, daemonVars>>

\* bulkInsert(data) on a store in the state insertBatch started from: it commits
\* if the pipeline into COPY ends well and throws after ROLLBACK if COPY raises
CopyBulkInsert ==
    /\ scenario.phase = "insertBatch"
    /\ LET data == scenario.data
           before == scenario.before
       IN IF Len(data) = 0 \/ CopyAccepts(data)
          THEN Completed(bulkInsert(before, data), "bulkInsert", Outcome(data), Len(data))
          ELSE Completed(ROLLBACK(before, before), "bulkInsert", "throw", Len(data))
    /\ scenario' = [phase |-> "bulkInsert", data |-> scenario.data, before |-> scenario.before,
                    viaInsertBatch |-> Store]
    /\ UNCHANGED <<hostVars, rpcVars, imu, conns, daemonVars>>

NextCopy ==
    \/ \E data \in Batches : CopyBuild(data)
    \/ \E data \in CopyBatches : CopyInsertBatch(data)
    \/ CopyBulkInsert

SpecCopy == InitCopy /\ [][NextCopy]_vars

\* C34: for every store and every batch of validated records, bulkInsert leaves
\* the same rows and the same checkpoint as insertBatch applied to that batch.
C34_CommitPathsAgree ==
    scenario.phase = "bulkInsert" => Store = scenario.viaInsertBatch

-----------------------------------------------------------------------------
(* The checkpoint over sequences of calls *)

\* C35: a call of insertBatch or bulkInsert never lowers the block_number of the
\* checkpoint; only rollbackState lowers it.
C35_CheckpointMonotone ==
    [][(lastCall'.op \in {"insertBatch", "bulkInsert"} /\ Checkpoint.present)
          => getHeadBlock(checkpoints').number >= Checkpoint.number
      ]_vars

\* the daemon running while an operator runs `imu rollback` against the same
\* database, each at its own pace, on a chain that grows and never reorganizes
NextDaemonAndRollbackCommand ==
    \/ \E t \in BlockTxChoices : NewBlock(t)
    \/ DaemonGetHeadBlock
    \/ DaemonGetBlockNumber
    \/ DaemonColdFetchBlockData
    \/ DaemonColdInsertBatch
    \/ DaemonColdFetchBlockHeader
    \/ DaemonColdSaveCheckpoint
    \/ DaemonSleep
    \/ DaemonFetchBlockHeader
    \/ DaemonBlockNotFound
    \/ DaemonRollbackState
    \/ DaemonFetchBlockData
    \/ DaemonInsertBatch
    \/ DaemonSaveCheckpoint
    \/ DaemonCatch
    \/ \E arg \in CliArgs : RollbackCommandStart(arg)
    \/ RollbackCommandGetHead
    \/ RollbackCommandRollback
    \/ RollbackCommandThrows

SpecDaemonAndRollbackCommand == InitDaemon /\ [][NextDaemonAndRollbackCommand]_vars

\* C36: the block_number of the checkpoint is never negative and the daemon
\* never asks for a block with a negative number.
C36_CheckpointFloor ==
    /\ Checkpoint.present => Checkpoint.number >= 0
    /\ pc \in {"fetchBlockHeader", "fetchBlockData"} => targetBlockNum >= 0

\* C37: when the daemon commits a block in the syncing branch, the hash written
\* to the rows and to the checkpoint is the hash of the header that passed the
\* parent-hash check of that iteration.
C37_HeaderBodyAgreement ==
    [][(pc = "insertBatch" /\ pc' = "getHeadBlock") =>
        /\ getHeadBlock(checkpoints').hash = targetBlockHeader.hash
        /\ \A r \in BagToSet(transactions') \ BagToSet(transactions) :
              r.block_hash = targetBlockHeader.hash
      ]_vars

\* C38: with `imu rollback` running beside the daemon, every commit the daemon
\* makes in the syncing branch is for the block numbered one above the
\* block_number the checkpoint holds at the moment of that commit.
C38_CommitsNextBlock ==
    [][(pc \in {"insertBatch", "saveCheckpoint"} /\ pc' = "getHeadBlock") =>
        (Checkpoint.present /\ targetBlockNum = Checkpoint.number + 1)
      ]_vars

-----------------------------------------------------------------------------
(* Backfill runs over a chain that reorganizes between them *)

\* the transactions the blocks of a new fork hold
ForkTxChoices == {<<"t1">>, <<"t2">>}

\* --start and --end of the runs: blocks of the chain
RerunArgs == {[text |-> "int", digits |-> k] : k \in 1..MaxBlock}

\* --batch-size of the runs
RerunBatchSize == [text |-> "int", digits |-> MaxBatch]

\* process.exit: the command has ended and can be run again
BackfillProcessExit ==
    /\ imu.command = "backfill"
    /\ imu.pc = "exited"
    /\ imu' = ImuOff
    /\ UNCHANGED <<hostVars, storeVars, lastCall, scenario, conns, daemonVars, rpcVars>>

NextBackfillRerun ==
    \/ \E k \in 1..MaxBlock, t \in ForkTxChoices : Reorg(k, t)
    \/ \E startStr \in RerunArgs, endStr \in RerunArgs :
            BackfillStart(startStr, endStr, RerunBatchSize)
    \/ BackfillLoop
    \/ \E i \in 0..(MaxBlock + 1) : BackfillFetchReturns(i)
    \/ BackfillAwaitAll
    \/ BackfillBulkInsert
    \/ BackfillProcessExit

SpecBackfillRerun == InitBackfill /\ [][NextBackfillRerun]_vars

\* C39: all rows with the same block_number carry the same block_hash.
C39_SingleForkPerHeight ==
    \A r1 \in Rows, r2 \in Rows :
        r1.block_number = r2.block_number => r1.block_hash = r2.block_hash

====
